---- MODULE Spec2Model ----
(***************************************************************************)
(* Device-emulation dispatch layer of the axvm module:                     *)
(*   src/modules/axvm/src/device/x86_64/mod.rs  (DeviceList and handlers)  *)
(*   src/modules/axvm/src/vm.rs                 (boot glue)                *)
(*                                                                         *)
(* Machine integers are little-endian byte strings: a u64 is a sequence of *)
(* 8 bytes, a u32 a sequence of 4 bytes, element 1 the least significant.  *)
(* Masks, shifts and casts are computed on that representation, so every   *)
(* register keeps its full width.                                          *)
(***************************************************************************)
EXTENDS Integers, Sequences, FiniteSets, TLC

(***************************************************************************)
(* Bounds of the model.                                                    *)
(***************************************************************************)
\* longest device sequence a registry is grown to
MaxDevs == 2
\* most VM exits the guest takes in a row without rewriting its registers
MaxChain == 2
\* axconfig::SMP, the number of cores
SMP == 3

(***************************************************************************)
(* Fixed-width unsigned integers.                                          *)
(***************************************************************************)
RECURSIVE BitAnd(_, _, _)
\* a & b on the low n bits of two naturals
BitAnd(a, b, n) ==
    IF n = 0 THEN 0
    ELSE ((a % 2) * (b % 2)) + 2 * BitAnd(a \div 2, b \div 2, n - 1)

RECURSIVE BitOr(_, _, _)
\* a | b on the low n bits of two naturals
BitOr(a, b, n) ==
    IF n = 0 THEN 0
    ELSE (IF (a % 2) + (b % 2) > 0 THEN 1 ELSE 0) + 2 * BitOr(a \div 2, b \div 2, n - 1)

\* x & y, bytewise, on integers of the same width
And(x, y) == [i \in 1..Len(x) |-> BitAnd(x[i], y[i], 8)]
\* x | y
Or(x, y) == [i \in 1..Len(x) |-> BitOr(x[i], y[i], 8)]
\* !x
Not(x) == [i \in 1..Len(x) |-> 255 - x[i]]
\* x >> 32 on a u64
Shr32(x) == [i \in 1..8 |-> IF i + 4 <= 8 THEN x[i + 4] ELSE 0]
\* x << 32 on a u64 (the bits shifted out of the top are dropped)
Shl32(x) == [i \in 1..8 |-> IF i > 4 THEN x[i - 4] ELSE 0]
\* `x as u64` of a u32: zero extension
AsU64(x) == [i \in 1..8 |-> IF i <= Len(x) THEN x[i] ELSE 0]
\* `x as u32` of a u64: truncation
AsU32(x) == [i \in 1..4 |-> x[i]]
\* the u64 literal with the given low bytes
U64(lo) == AsU64(lo)
\* the u32 literal with the given low bytes
U32(lo) == [i \in 1..4 |-> IF i <= Len(lo) THEN lo[i] ELSE 0]

RECURSIVE LtFrom(_, _, _)
\* x < y decided from byte i downwards
LtFrom(x, y, i) ==
    IF i = 0 THEN FALSE
    ELSE IF x[i] # y[i] THEN x[i] < y[i]
    ELSE LtFrom(x, y, i - 1)

\* x < y on integers of the same width
Lt(x, y) == LtFrom(x, y, Len(x))
\* Range::contains on a half-open range start..end of fixed-width integers
RangeContains(r, x) == ~Lt(x, r.start) /\ Lt(x, r.end)
\* Range::contains on a half-open range of u16 port numbers
PortRangeContains(r, port) == r.start <= port /\ port < r.end

(***************************************************************************)
(* Devices.  A device handle is named by an identifier; its declared range *)
(* never changes.  The pools are the handles the add_* operations are      *)
(* called with.                                                            *)
(***************************************************************************)
\* port-I/O devices: the CMOS proxy at 0x70..0x72 and one overlapping it
PortDevs == {"cmos", "dev71"}
\* the device behind the PCI port-I/O BAR of the root bus
BarDevs == {"bar"}
\* memory-mapped devices
MmioDevs == {"mmio_a", "mmio_b"}
\* MSR devices: one that stores what is written, one that answers freely
MsrDevs == {"msr_reg", "msr_any"}
\* the MSR devices whose read returns the last value written
MsrRegLike == {"msr_reg"}

\* PioOps::port_range of each port-I/O device
port_range(dev) ==
    CASE dev = "cmos"  -> [start |-> \h70, end |-> \h72]
      [] dev = "dev71" -> [start |-> \h71, end |-> \h73]
      [] dev = "bar"   -> [start |-> \h72, end |-> \h74]

\* MmioOps::mmio_range of each memory-mapped device
mmio_range(dev) ==
    CASE dev = "mmio_a" -> [start |-> U64(<<0, 0, \hE0, \hFE>>), end |-> U64(<<0, \h20, \hE0, \hFE>>)]
      [] dev = "mmio_b" -> [start |-> U64(<<0, \h10, \hE0, \hFE>>), end |-> U64(<<0, \h30, \hE0, \hFE>>)]

\* VirtMsrOps::msr_range of each MSR device
msr_range(dev) ==
    CASE dev = "msr_reg" -> [start |-> U32(<<\hE1>>), end |-> U32(<<\hE2>>)]
      [] dev = "msr_any" -> [start |-> U32(<<\hE1>>), end |-> U32(<<\hE3>>)]

\* the ports guests are made to access
Ports == {\h10, \h70, \h71, \h72, \h73}
\* the guest-physical addresses looked up
Addrs == {U64(<<0, 0, \hE0, \hFE>>), U64(<<8, \h10, \hE0, \hFE>>),
          U64(<<0, \h20, \hE0, \hFE>>), U64(<<0, \h30, \hE0, \hFE>>)}
\* the MSR indices looked up
Msrs == {U32(<<\hE1>>), U32(<<\hE2>>), U32(<<\hE3>>), U32(<<\h29, \h10, \h01, \hC0>>)}

\* Option<device>: the absent handle
NoDev == "none"

(***************************************************************************)
(* State.                                                                  *)
(***************************************************************************)
VARIABLES
    port_io_devices,    \* DeviceList.port_io_devices: sequence of handles
    memory_io_devices,  \* DeviceList.memory_io_devices
    msr_devices,        \* DeviceList.msr_devices
    pci_devices,        \* DeviceList.pci_devices: Option of the PCI host
    vcpu,               \* guest registers rax, rcx, rdx and instruction pointer
    exit_info,          \* descriptor of the VM exit being handled
    phase,              \* "setup", "guest", "exited", "handled" or "aborted"
    msr_value,          \* value stored by each register-like MSR device
    hist,               \* the exits handled since the guest last wrote its
                        \* registers: handler, registers before, calls, result
    first_reg,          \* order in which each handle was first registered
    last,               \* X64VcpuDevices.last: Option<u64>, in microseconds
    clock,              \* the latest reading of current_time_nanos, in microseconds
    pic_mask,           \* interrupt mask register of pic[0]
    pending_events,     \* the vCPU's queue of events awaiting injection
    check_hist,         \* the check_events calls made: count, first reading,
                        \* and what the last call read, found and queued
    CPU_NMI_LIST,       \* the NMI message queue of each physical CPU
    nmi_state,          \* where each CPU's nmi_handler stands, and its `msg`
    nmi_log,            \* messages sent and popped, VMs booted, and each CPU's
                        \* latest handler run: queues before and after, result
    exit_arg,           \* what comes with the exit besides exit_info: the
                        \* interrupt info, the nested-page-fault info, `instr`
    INIT_GPM_OK,        \* static INIT_GPM_OK: AtomicU32
    INITED_CPUS,        \* static INITED_CPUS: AtomicUsize
    boot_pc,            \* where each core stands in config_boot_linux
    boot_log,           \* whether the root guest memory map is initialised,
                        \* the cores that read it before, the cores with a
                        \* vCPU created and with a vCPU bound
    size_call,          \* the latest get_access_size call: argument and result
    lock_state,         \* where each vCPU task stands in handle_io_instruction
                        \* and the device locks it holds
    vm_devices          \* the DeviceList of the per-VM device set, when the
                        \* registry above is the one of a per-vCPU set

\* the state of the registry and of the exit being handled
DispatchVars == <<port_io_devices, memory_io_devices, msr_devices, pci_devices,
                  vcpu, exit_info, phase, msr_value, hist, first_reg>>
\* the state of the periodic-event hook
TimerVars == <<last, clock, pic_mask, pending_events, check_hist>>
\* the state of the NMI signalling between CPUs
NmiVars == <<CPU_NMI_LIST, nmi_state, nmi_log>>
\* the state of the boot of the cores
BootVars == <<INIT_GPM_OK, INITED_CPUS, boot_pc, boot_log>>
\* what the registry and the exit handlers leave alone
OtherVars == <<TimerVars, NmiVars, exit_arg, BootVars, size_call,
               lock_state, vm_devices>>
\* what check_events and its environment leave alone
TimerRest == <<DispatchVars, NmiVars, exit_arg, BootVars, size_call,
               lock_state, vm_devices>>
\* what the NMI handlers and the senders leave alone
NmiRest == <<DispatchVars, TimerVars, exit_arg, BootVars, size_call,
             lock_state, vm_devices>>
\* what config_boot_linux leaves alone before the vCPUs run
BootRest == <<DispatchVars, TimerVars, NmiVars, exit_arg, size_call,
              lock_state, vm_devices>>

vars == <<DispatchVars, OtherVars>>

\* the registry as the `self` of the DeviceList methods
DeviceList == [port_io_devices |-> port_io_devices,
               memory_io_devices |-> memory_io_devices,
               msr_devices |-> msr_devices,
               pci_devices |-> pci_devices]

\* Option<Arc<Mutex<DummyPciHost>>>: None, and Some(host) with its root bus
PciNone == [is_some |-> FALSE, root_bus |-> <<>>]
PciSome(root_bus) == [is_some |-> TRUE, root_bus |-> root_bus]

\* the exit descriptor before any exit was taken
NoExit == [exit_reason |-> "NONE", exit_instruction_length |-> 0,
           port |-> 0, access_size |-> 0, is_in |-> FALSE,
           is_string |-> FALSE, is_repeat |-> FALSE]

\* registers of a vCPU that has not run yet
ResetVcpu == [rax |-> U64(<<>>), rcx |-> U64(<<>>), rdx |-> U64(<<>>), rip |-> 0]

\* Option<u64> of X64VcpuDevices.last
LastNone == [is_some |-> FALSE, val |-> 0]
LastSome(t) == [is_some |-> TRUE, val |-> t]

\* no check_events call was made yet
NoChecks == [calls |-> 0, first_now |-> 0, now |-> 0, last_before |-> LastNone,
             mask_bit |-> FALSE, queued |-> <<>>, apic |-> <<>>, tick |-> FALSE,
             prev_tick |-> -1]

\* the physical CPUs that exchange NMI messages
NmiCpus == {0, 1}
\* Option<NmiMessage>: None, and Some(BootVm(vm_id)); n tells the messages
\* of one VM apart by the order in which they were sent
NoMsg == [is_some |-> FALSE, vm_id |-> 0, n |-> 0]
SomeBootVm(vm_id, n) == [is_some |-> TRUE, vm_id |-> vm_id, n |-> n]
\* HyperResult<u32>
Ok0 == [ok |-> TRUE, val |-> 0]
\* no nmi_handler has run on the CPU yet
NoRun == [ran |-> FALSE, done |-> FALSE, before |-> <<>>, after |-> <<>>,
          msg |-> NoMsg, booted |-> <<>>, ret |-> Ok0]

\* HyperResult of vcpu.interrupt_exit_info()
IntInfoOk(vector, valid) == [ok |-> TRUE, err |-> "-", vector |-> vector, valid |-> valid]
IntInfoErr(e) == [ok |-> FALSE, err |-> e, vector |-> 0, valid |-> FALSE]
\* HyperResult of vcpu.nested_page_fault_info()
NpfInfoOk(paddr, write) ==
    [ok |-> TRUE, err |-> "-", fault_guest_paddr |-> paddr, write |-> write]
NpfInfoErr(e) ==
    [ok |-> FALSE, err |-> e, fault_guest_paddr |-> U64(<<>>), write |-> FALSE]
\* Option<Instruction>: None, and Some of a decoded instruction with its
\* code, the kinds of its operands 0 to 2, the size of op_register(0) and of
\* its memory operand
NoInstr == [is_some |-> FALSE, code |-> "INVALID", op0_kind |-> "Register",
            op1_kind |-> "Register", op2_kind |-> "Register",
            op0_register_size |-> 0, memory_size |-> 0]
SomeInstr(code, k0, k1, k2, reg_size, mem_size) ==
    [is_some |-> TRUE, code |-> code, op0_kind |-> k0, op1_kind |-> k1,
     op2_kind |-> k2, op0_register_size |-> reg_size, memory_size |-> mem_size]
\* an exit that comes with none of them
NoArg == [int_info |-> IntInfoErr("BadState"), npf_info |-> NpfInfoErr("BadState"),
          instr |-> NoInstr]

\* the cores that boot: hart_id 0 to SMP - 1
Harts == 0..(SMP - 1)

\* a decoded instruction with the register of each of its operands 0 to 2:
\* op_register(i).size() is 0 when operand i is not a register
Decoded(code, k0, k1, k2, r0, r1, r2, mem_size) ==
    [is_some |-> TRUE, code |-> code, op0_kind |-> k0, op1_kind |-> k1,
     op2_kind |-> k2, op0_register_size |-> r0, op1_register_size |-> r1,
     op2_register_size |-> r2, memory_size |-> mem_size]
\* get_access_size was not called yet
NoSizeCall ==
    [called |-> FALSE,
     instruction |-> Decoded("INVALID", "Register", "Register", "Register", 0, 0, 0, 0),
     ret |-> [ok |-> FALSE, err |-> "-", val |-> 0]]

\* DeviceList::new and X64VcpuDevices::new, with the vCPU not yet started
\* the vCPU tasks of one VM, which share its devices
VcpuTasks == {0, 1}
\* a task that is not inside handle_io_instruction holds no device lock
Outside == [pc |-> "outside", port |-> 0, i |-> 0, dev |-> NoDev, held |-> {}]

\* DeviceList::new: a registry without devices
DeviceList_new == [port_io_devices |-> <<>>, memory_io_devices |-> <<>>,
                   msr_devices |-> <<>>, pci_devices |-> PciNone]

Init ==
    /\ port_io_devices = <<>>
    /\ memory_io_devices = <<>>
    /\ msr_devices = <<>>
    /\ pci_devices = PciNone
    /\ vcpu = ResetVcpu
    /\ exit_info = NoExit
    /\ phase = "setup"
    /\ msr_value = [d \in MsrRegLike |-> U64(<<>>)]
    /\ hist = <<>>
    /\ first_reg = [d \in PortDevs \cup MmioDevs \cup MsrDevs |-> 0]
    /\ last = LastNone
    /\ clock = 0
    /\ pic_mask = 0
    /\ pending_events = <<>>
    /\ check_hist = NoChecks
    /\ CPU_NMI_LIST = [c \in NmiCpus |-> <<>>]
    /\ nmi_state = [c \in NmiCpus |-> [pc |-> "idle", msg |-> NoMsg]]
    /\ nmi_log = [sent |-> <<>>, popped |-> <<>>, boots |-> <<>>,
                  run |-> [c \in NmiCpus |-> NoRun]]
    /\ exit_arg = NoArg
    /\ INIT_GPM_OK = 0
    /\ INITED_CPUS = 0
    /\ boot_pc = [c \in Harts |-> "start"]
    /\ boot_log = [gpm_ready |-> FALSE, read_early |-> {}, created |-> {}, bound |-> {}]
    /\ size_call = NoSizeCall
    /\ lock_state = [t \in VcpuTasks |-> Outside]
    /\ vm_devices = DeviceList_new

(***************************************************************************)
(* Registration and lookup.                                                *)
(***************************************************************************)
\* sequences of at most n handles of a pool
SeqsUpTo(pool, n) == UNION {[1..k -> pool] : k \in 0..n}

\* Vec::push gone wrong: the handle is put in front
push_front(vec, device) == <<device>> \o vec

\* Vec::push
push(vec, device) == Append(vec, device)
\* Vec::append: moves every element of `devices` to the end, in order
append(vec, devices) == vec \o devices

\* the registration order after registering `devices` behind `n` handles
NoteRegistered(devices, n) ==
    [d \in DOMAIN first_reg |->
        IF first_reg[d] = 0 /\ \E i \in 1..Len(devices) : devices[i] = d
        THEN n + (CHOOSE i \in 1..Len(devices) :
                    devices[i] = d /\ \A j \in 1..(i - 1) : devices[j] # d)
        ELSE first_reg[d]]

RegistryRest == <<vcpu, exit_info, phase, msr_value, hist, OtherVars>>

add_port_io_device(device) ==
    /\ phase = "setup"
    /\ Len(port_io_devices) < MaxDevs
    /\ port_io_devices' = push(port_io_devices, device)
    /\ first_reg' = NoteRegistered(<<device>>, Len(port_io_devices))
    /\ UNCHANGED <<memory_io_devices, msr_devices, pci_devices, RegistryRest>>

add_port_io_devices(devices) ==
    /\ phase = "setup"
    /\ Len(port_io_devices) + Len(devices) <= MaxDevs
    /\ port_io_devices' = append(port_io_devices, devices)
    /\ first_reg' = NoteRegistered(devices, Len(port_io_devices))
    /\ UNCHANGED <<memory_io_devices, msr_devices, pci_devices, RegistryRest>>

add_memory_io_device(device) ==
    /\ phase = "setup"
    /\ Len(memory_io_devices) < MaxDevs
    /\ memory_io_devices' = push(memory_io_devices, device)
    /\ first_reg' = NoteRegistered(<<device>>, Len(memory_io_devices))
    /\ UNCHANGED <<port_io_devices, msr_devices, pci_devices, RegistryRest>>

add_memory_io_devices(devices) ==
    /\ phase = "setup"
    /\ Len(memory_io_devices) + Len(devices) <= MaxDevs
    /\ memory_io_devices' = append(memory_io_devices, devices)
    /\ first_reg' = NoteRegistered(devices, Len(memory_io_devices))
    /\ UNCHANGED <<port_io_devices, msr_devices, pci_devices, RegistryRest>>

add_msr_device(device) ==
    /\ phase = "setup"
    /\ Len(msr_devices) < MaxDevs
    /\ msr_devices' = push(msr_devices, device)
    /\ first_reg' = NoteRegistered(<<device>>, Len(msr_devices))
    /\ UNCHANGED <<port_io_devices, memory_io_devices, pci_devices, RegistryRest>>

add_msr_devices(devices) ==
    /\ phase = "setup"
    /\ Len(msr_devices) + Len(devices) <= MaxDevs
    /\ msr_devices' = append(msr_devices, devices)
    /\ first_reg' = NoteRegistered(devices, Len(msr_devices))
    /\ UNCHANGED <<port_io_devices, memory_io_devices, pci_devices, RegistryRest>>

\* the handles of a sequence
Handles(vec) == {vec[i] : i \in 1..Len(vec)}

RECURSIVE find(_, _, _)
\* Iterator::find: the first element from index i on that is among `matching`,
\* the handles the closure answers true for
find(vec, matching, i) ==
    IF i > Len(vec) THEN NoDev
    ELSE IF vec[i] \in matching THEN vec[i]
    ELSE find(vec, matching, i + 1)

find_port_io_device(self, port) ==
    find(self.port_io_devices,
         {dev \in Handles(self.port_io_devices) : PortRangeContains(port_range(dev), port)},
         1)

find_memory_io_device(self, address) ==
    find(self.memory_io_devices,
         {dev \in Handles(self.memory_io_devices) : RangeContains(mmio_range(dev), address)},
         1)

find_msr_device(self, msr) ==
    find(self.msr_devices,
         {dev \in Handles(self.msr_devices) : RangeContains(msr_range(dev), msr)},
         1)

\* the registry is built by any sequence of add_* calls
NextReg ==
    \/ \E d \in PortDevs : add_port_io_device(d)
    \/ \E ds \in SeqsUpTo(PortDevs, MaxDevs) : add_port_io_devices(ds)
    \/ \E d \in MmioDevs : add_memory_io_device(d)
    \/ \E ds \in SeqsUpTo(MmioDevs, MaxDevs) : add_memory_io_devices(ds)
    \/ \E d \in MsrDevs : add_msr_device(d)
    \/ \E ds \in SeqsUpTo(MsrDevs, MaxDevs) : add_msr_devices(ds)

SpecReg == Init /\ [][NextReg]_vars

(***************************************************************************)
(* Results.                                                                *)
(***************************************************************************)
\* HyperResult: Ok(()) and Err(e)
Ok == [ok |-> TRUE, err |-> "-"]
Err(e) == [ok |-> FALSE, err |-> e]
\* Option<HyperResult>: None ("not handled") and Some(result)
None == [is_some |-> FALSE, val |-> "-"]
Some(r) == [is_some |-> TRUE, val |-> r]
\* the handler did not return: panic!
Panicked == [ok |-> FALSE, err |-> "panic"]

\* what a device answers to one read: Ok(value) or Err(e)
ReadOk(v) == [ok |-> TRUE, value |-> v, err |-> "-"]
\* what a device answers to one write, or a failed read
DevOk == [ok |-> TRUE, value |-> <<>>, err |-> "-"]
DevErr(e) == [ok |-> FALSE, value |-> <<>>, err |-> e]

\* errors a device read or write comes back with
DevErrors == {"InvalidParam", "NotFound"}
\* values a port-I/O device read comes back with (u32)
PioValues == {U32(<<\h41>>), U32(<<\hEF, \hBE, \hAD, \hDE>>)}
\* values a freely answering MSR device read comes back with (u64)
MsrValues == {U64(<<\hEF, \hCD, \hAB, \h89, \h67, \h45, \h23, \h01>>),
              U64(<<0, 0, 0, 0, \hFF, \hFF, \hFF, \hFF>>)}

(***************************************************************************)
(* The guest.                                                              *)
(***************************************************************************)
\* register files the guest traps with
GuestVcpus ==
    { [rax |-> U64(<<\h41, \h77, \h66, \h55, \h44, \h33, \h22, \h11>>),
       rcx |-> U64(<<\hE1, 0, 0, 0, \hFF, 0, 0, 0>>),
       rdx |-> U64(<<1, 0, 0, 0, \h9A, 0, 0, 0>>),
       rip |-> \h1000],
      [rax |-> U64(<<\hFF, \hFF, \hFF, \hFF, \hFF, \hFF, \hFF, \hFF>>),
       rcx |-> U64(<<\hE2>>),
       rdx |-> U64(<<0, 0, 0, \h80>>),
       rip |-> \h2000],
      [rax |-> U64(<<>>),
       rcx |-> U64(<<\h29, \h10, \h01, \hC0>>),
       rdx |-> U64(<<>>),
       rip |-> \h1000] }

\* I/O exits: port, access size 1/2/4, direction, string and repeat flags
IoExits ==
    { [NoExit EXCEPT !.exit_reason = "IO_INSTRUCTION",
                     !.exit_instruction_length = len,
                     !.port = port, !.access_size = size, !.is_in = in,
                     !.is_string = str, !.is_repeat = rep] :
        len \in {1, 2}, port \in Ports, size \in {1, 2, 4},
        in \in BOOLEAN, str \in BOOLEAN, rep \in BOOLEAN }

\* RDMSR and WRMSR exits
MsrExits ==
    { [NoExit EXCEPT !.exit_reason = r, !.exit_instruction_length = 2] :
        r \in {"MSR_READ", "MSR_WRITE"} }

\* exit descriptors of the given exit reasons
ExitInfos(reasons) == {e \in IoExits \cup MsrExits : e.exit_reason \in reasons}

\* the vCPU is entered: the guest runs and leaves any of its register files
run_vcpu ==
    /\ phase \in {"setup", "handled"}
    /\ vcpu' \in GuestVcpus
    /\ exit_info' = NoExit
    /\ phase' = "guest"
    /\ hist' = <<>>
    /\ UNCHANGED <<port_io_devices, memory_io_devices, msr_devices,
                   pci_devices, msr_value, first_reg, OtherVars>>

\* the running guest traps with an exit of one of the given reasons
vm_exit(reasons) ==
    /\ phase = "guest"
    /\ exit_info' \in ExitInfos(reasons)
    /\ phase' = "exited"
    /\ UNCHANGED <<port_io_devices, memory_io_devices, msr_devices,
                   pci_devices, vcpu, msr_value, hist, first_reg, OtherVars>>

\* the guest resumes after a handled exit and traps on its next instruction
\* with the registers as the handler left them
vm_exit_again(reasons) ==
    /\ phase = "handled"
    /\ Len(hist) < MaxChain
    /\ exit_info' \in ExitInfos(reasons)
    /\ phase' = "exited"
    /\ UNCHANGED <<port_io_devices, memory_io_devices, msr_devices,
                   pci_devices, vcpu, msr_value, hist, first_reg, OtherVars>>

\* VCpu::advance_rip
advance_rip(v, instr_len) == [v EXCEPT !.rip = v.rip + instr_len]

(***************************************************************************)
(* Port I/O.                                                               *)
(***************************************************************************)
\* one device call: which handle, read or write, the arguments, the answer
Call(dev, op, key, size, value, res) ==
    [dev |-> dev, op |-> op, key |-> key, size |-> size, value |-> value,
     res |-> res]

\* io_in_merge gone wrong: a 4-byte IN keeps the upper half of rax
io_in_merge_keeps_high(rax, access_size, value) ==
    CASE access_size = 1 ->
            Or(And(rax, Not(U64(<<\hFF>>))), AsU64(And(value, U32(<<\hFF>>))))
      [] access_size = 2 ->
            Or(And(rax, Not(U64(<<\hFF, \hFF>>))), AsU64(And(value, U32(<<\hFF, \hFF>>))))
      [] access_size = 4 ->
            Or(And(rax, Not(U64(<<\hFF, \hFF, \hFF, \hFF>>))), AsU64(value))

\* IN: merge the value read into rax by access size
io_in_merge(rax, access_size, value) ==
    CASE access_size = 1 ->
            Or(And(rax, Not(U64(<<\hFF>>))), AsU64(And(value, U32(<<\hFF>>))))
      [] access_size = 2 ->
            Or(And(rax, Not(U64(<<\hFF, \hFF>>))), AsU64(And(value, U32(<<\hFF, \hFF>>))))
      [] access_size = 4 -> AsU64(value)

\* io_out_value gone wrong: a 1-byte OUT is masked like a 2-byte one
io_out_value_wide_mask(rax, access_size) ==
    AsU32(CASE access_size = 1 -> And(rax, U64(<<\hFF, \hFF>>))
            [] access_size = 2 -> And(rax, U64(<<\hFF, \hFF>>))
            [] access_size = 4 -> rax)

\* OUT: the value written, taken from rax by access size
io_out_value(rax, access_size) ==
    AsU32(CASE access_size = 1 -> And(rax, U64(<<\hFF>>))
            [] access_size = 2 -> And(rax, U64(<<\hFF, \hFF>>))
            [] access_size = 4 -> rax)

\* the handler's effect: result, registers after, device calls made, and
\* whether the root bus of the PCI host was asked for a BAR
Effect(ret, v, calls) ==
    [ret |-> ret, vcpu |-> v, calls |-> calls, pci_asked |-> FALSE]

\* handle_io_instruction_to_device gone wrong: REP is not rejected
handle_io_instruction_to_device_rep(v, exit, device, dev_res) ==
    IF exit.is_string THEN Effect(Err("NotSupported"), v, <<>>)
    ELSE IF exit.is_in THEN
        LET call == Call(device, "read", exit.port, exit.access_size, <<>>, dev_res)
        IN IF ~dev_res.ok THEN Effect(Err(dev_res.err), v, <<call>>)
           ELSE Effect(Ok,
                       advance_rip([v EXCEPT !.rax = io_in_merge(v.rax, exit.access_size, dev_res.value)],
                                   exit.exit_instruction_length),
                       <<call>>)
    ELSE
        LET value == io_out_value(v.rax, exit.access_size)
            call == Call(device, "write", exit.port, exit.access_size, value, dev_res)
        IN IF ~dev_res.ok THEN Effect(Err(dev_res.err), v, <<call>>)
           ELSE Effect(Ok, advance_rip(v, exit.exit_instruction_length), <<call>>)

\* handle_io_instruction_to_device gone wrong: rip advances before the
\* device is called, so also when the device fails
handle_io_instruction_to_device_early(v, exit, device, dev_res) ==
    IF exit.is_string THEN Effect(Err("NotSupported"), v, <<>>)
    ELSE IF exit.is_repeat THEN Effect(Err("NotSupported"), v, <<>>)
    ELSE IF exit.is_in THEN
        LET call == Call(device, "read", exit.port, exit.access_size, <<>>, dev_res)
        IN IF ~dev_res.ok
           THEN Effect(Err(dev_res.err), advance_rip(v, exit.exit_instruction_length), <<call>>)
           ELSE Effect(Ok,
                       advance_rip([v EXCEPT !.rax = io_in_merge(v.rax, exit.access_size, dev_res.value)],
                                   exit.exit_instruction_length),
                       <<call>>)
    ELSE
        LET value == io_out_value(v.rax, exit.access_size)
            call == Call(device, "write", exit.port, exit.access_size, value, dev_res)
        IN IF ~dev_res.ok
           THEN Effect(Err(dev_res.err), advance_rip(v, exit.exit_instruction_length), <<call>>)
           ELSE Effect(Ok, advance_rip(v, exit.exit_instruction_length), <<call>>)

\* dev_res is what the device answers to the read or write made
handle_io_instruction_to_device(v, exit, device, dev_res) ==
    IF exit.is_string THEN Effect(Err("NotSupported"), v, <<>>)
    ELSE IF exit.is_repeat THEN Effect(Err("NotSupported"), v, <<>>)
    ELSE IF exit.is_in THEN
        LET call == Call(device, "read", exit.port, exit.access_size, <<>>, dev_res)
        IN IF ~dev_res.ok THEN Effect(Err(dev_res.err), v, <<call>>)
           ELSE Effect(Ok,
                       advance_rip([v EXCEPT !.rax = io_in_merge(v.rax, exit.access_size, dev_res.value)],
                                   exit.exit_instruction_length),
                       <<call>>)
    ELSE
        LET value == io_out_value(v.rax, exit.access_size)
            call == Call(device, "write", exit.port, exit.access_size, value, dev_res)
        IN IF ~dev_res.ok THEN Effect(Err(dev_res.err), v, <<call>>)
           ELSE Effect(Ok, advance_rip(v, exit.exit_instruction_length), <<call>>)

\* PciBus::find_pio_bar: the BAR device of the bus whose range holds the port
find_pio_bar(root_bus, port) ==
    find(root_bus,
         {dev \in Handles(root_bus) : PortRangeContains(port_range(dev), port)},
         1)

\* handle_io_instruction gone wrong: a port nobody owns reads as all ones
handle_io_instruction_floating(self, v, exit, dev_res) ==
    LET dev == find_port_io_device(self, exit.port)
    IN IF dev # NoDev
       THEN LET e == handle_io_instruction_to_device(v, exit, dev, dev_res)
            IN [e EXCEPT !.ret = Some(e.ret)]
       ELSE IF self.pci_devices.is_some
       THEN LET bar == find_pio_bar(self.pci_devices.root_bus, exit.port)
            IN IF bar # NoDev
               THEN LET e == handle_io_instruction_to_device(v, exit, bar, dev_res)
                    IN [e EXCEPT !.ret = Some(e.ret), !.pci_asked = TRUE]
               ELSE [Effect(None, v, <<>>) EXCEPT !.pci_asked = TRUE]
       ELSE IF exit.is_in
       THEN Effect(Some(Ok),
                   advance_rip([v EXCEPT !.rax = io_in_merge(v.rax, exit.access_size,
                                                             U32(<<\hFF, \hFF, \hFF, \hFF>>))],
                               exit.exit_instruction_length),
                   <<>>)
       ELSE Effect(Some(Ok), advance_rip(v, exit.exit_instruction_length), <<>>)

\* handle_io_instruction gone wrong: the PCI root bus is asked first
handle_io_instruction_pci_first(self, v, exit, dev_res) ==
    LET dev == find_port_io_device(self, exit.port)
        bar == IF self.pci_devices.is_some
               THEN find_pio_bar(self.pci_devices.root_bus, exit.port)
               ELSE NoDev
    IN IF bar # NoDev
       THEN LET e == handle_io_instruction_to_device(v, exit, bar, dev_res)
            IN [e EXCEPT !.ret = Some(e.ret), !.pci_asked = TRUE]
       ELSE IF dev # NoDev
       THEN LET e == handle_io_instruction_to_device(v, exit, dev, dev_res)
            IN [e EXCEPT !.ret = Some(e.ret), !.pci_asked = self.pci_devices.is_some]
       ELSE [Effect(None, v, <<>>) EXCEPT !.pci_asked = self.pci_devices.is_some]

handle_io_instruction(self, v, exit, dev_res) ==
    LET dev == find_port_io_device(self, exit.port)
    IN IF dev # NoDev
       THEN LET e == handle_io_instruction_to_device(v, exit, dev, dev_res)
            IN [e EXCEPT !.ret = Some(e.ret)]
       ELSE IF self.pci_devices.is_some
       THEN LET bar == find_pio_bar(self.pci_devices.root_bus, exit.port)
            IN IF bar # NoDev
               THEN LET e == handle_io_instruction_to_device(v, exit, bar, dev_res)
                    IN [e EXCEPT !.ret = Some(e.ret), !.pci_asked = TRUE]
               ELSE [Effect(None, v, <<>>) EXCEPT !.pci_asked = TRUE]
       ELSE Effect(None, v, <<>>)

\* what a port-I/O device may answer to the access of the exit
PioResponses(exit) ==
    IF exit.is_in THEN {ReadOk(val) : val \in PioValues} \cup {DevErr(e) : e \in DevErrors}
    ELSE {DevOk} \cup {DevErr(e) : e \in DevErrors}

\* one handled exit, as remembered in hist
Event(handler, eff, aborted) ==
    [handler |-> handler, pre |-> vcpu, exit |-> exit_info, ret |-> eff.ret,
     calls |-> eff.calls, pci_asked |-> eff.pci_asked,
     msr_before |-> msr_value, aborted |-> aborted]

init_pci_host ==
    /\ phase = "setup"
    /\ pci_devices' = PciSome(<<>>)
    /\ UNCHANGED <<port_io_devices, memory_io_devices, msr_devices, first_reg, RegistryRest>>

\* the virtio PCI device is realized on the root bus of the host, which from
\* then on answers for the device's port-I/O BAR
add_virtio_pci_device(device) ==
    /\ phase = "setup"
    /\ pci_devices.is_some
    /\ \A i \in 1..Len(pci_devices.root_bus) : pci_devices.root_bus[i] # device
    /\ pci_devices' = PciSome(Append(pci_devices.root_bus, device))
    /\ UNCHANGED <<port_io_devices, memory_io_devices, msr_devices, first_reg, RegistryRest>>

\* the exit is an I/O instruction and the registry handles it
call_handle_io_instruction ==
    /\ phase = "exited"
    /\ exit_info.exit_reason = "IO_INSTRUCTION"
    /\ \E dev_res \in PioResponses(exit_info) :
        LET eff == handle_io_instruction(DeviceList, vcpu, exit_info, dev_res)
        IN /\ vcpu' = eff.vcpu
           /\ hist' = Append(hist, Event("handle_io_instruction", eff, FALSE))
    /\ phase' = "handled"
    /\ UNCHANGED <<port_io_devices, memory_io_devices, msr_devices,
                   pci_devices, exit_info, msr_value, first_reg, OtherVars>>

Next ==
    \/ \E d \in PortDevs : add_port_io_device(d)
    \/ \E ds \in SeqsUpTo(PortDevs, MaxDevs) : add_port_io_devices(ds)
    \/ init_pci_host
    \/ \E d \in BarDevs : add_virtio_pci_device(d)
    \/ run_vcpu
    \/ vm_exit({"IO_INSTRUCTION"})
    \/ call_handle_io_instruction

\* registry construction followed by the I/O exits of one vCPU
Spec == Init /\ [][Next]_vars

(***************************************************************************)
(* Model-specific registers.                                               *)
(***************************************************************************)
VM_EXIT_INSTR_LEN_RDMSR == 2
VM_EXIT_INSTR_LEN_WRMSR == 2

\* handle_msr_read gone wrong: rdx receives the value unshifted
handle_msr_read_unshifted(self, v, dev_res) ==
    LET msr == AsU32(v.rcx)
        dev == find_msr_device(self, msr)
    IN IF dev # NoDev
       THEN LET call == Call(dev, "read", msr, 8, <<>>, dev_res)
            IN IF dev_res.ok
               THEN Effect(Ok,
                           advance_rip([v EXCEPT
                                          !.rax = And(dev_res.value, U64(<<\hFF, \hFF, \hFF, \hFF>>)),
                                          !.rdx = dev_res.value],
                                       VM_EXIT_INSTR_LEN_RDMSR),
                           <<call>>)
               ELSE Effect(Panicked, v, <<call>>)
       ELSE Effect(Panicked, v, <<>>)

\* handle_msr_read gone wrong: an index no device covers reads as zero
handle_msr_read_default_zero(self, v, dev_res) ==
    LET msr == AsU32(v.rcx)
        dev == find_msr_device(self, msr)
    IN IF dev # NoDev
       THEN LET call == Call(dev, "read", msr, 8, <<>>, dev_res)
            IN IF dev_res.ok
               THEN Effect(Ok,
                           advance_rip([v EXCEPT
                                          !.rax = And(dev_res.value, U64(<<\hFF, \hFF, \hFF, \hFF>>)),
                                          !.rdx = Shr32(dev_res.value)],
                                       VM_EXIT_INSTR_LEN_RDMSR),
                           <<call>>)
               ELSE Effect(Panicked, v, <<call>>)
       ELSE Effect(Ok,
                   advance_rip([v EXCEPT !.rax = U64(<<>>), !.rdx = U64(<<>>)],
                               VM_EXIT_INSTR_LEN_RDMSR),
                   <<>>)

handle_msr_read(self, v, dev_res) ==
    LET msr == AsU32(v.rcx)
        dev == find_msr_device(self, msr)
    IN IF dev # NoDev
       THEN LET call == Call(dev, "read", msr, 8, <<>>, dev_res)
            IN IF dev_res.ok
               THEN Effect(Ok,
                           advance_rip([v EXCEPT
                                          !.rax = And(dev_res.value, U64(<<\hFF, \hFF, \hFF, \hFF>>)),
                                          !.rdx = Shr32(dev_res.value)],
                                       VM_EXIT_INSTR_LEN_RDMSR),
                           <<call>>)
               ELSE Effect(Panicked, v, <<call>>)
       ELSE Effect(Panicked, v, <<>>)

\* msr_write_value gone wrong: rax is not masked to its low half
msr_write_value_unmasked(v) ==
    Or(v.rax, Shl32(v.rdx))

\* msr_write_value gone wrong: the halves are swapped
msr_write_value_swapped(v) ==
    Or(And(v.rdx, U64(<<\hFF, \hFF, \hFF, \hFF>>)), Shl32(v.rax))

\* the 64-bit value WRMSR writes: edx:eax
msr_write_value(v) ==
    Or(And(v.rax, U64(<<\hFF, \hFF, \hFF, \hFF>>)), Shl32(v.rdx))

handle_msr_write(self, v, dev_res) ==
    LET msr == AsU32(v.rcx)
        value == msr_write_value(v)
        dev == find_msr_device(self, msr)
    IN IF dev # NoDev
       THEN LET call == Call(dev, "write", msr, 8, value, dev_res)
            IN IF dev_res.ok
               THEN Effect(Ok, advance_rip(v, VM_EXIT_INSTR_LEN_WRMSR), <<call>>)
               ELSE Effect(Panicked, v, <<call>>)
       ELSE Effect(Panicked, v, <<>>)

\* what an MSR device may answer to a read: a register-like device answers
\* the value it stores, any other device a value or an error
MsrReadResponses(dev) ==
    IF dev \in MsrRegLike THEN {ReadOk(msr_value[dev])}
    ELSE {ReadOk(val) : val \in MsrValues} \cup {DevErr(e) : e \in DevErrors}

\* what an MSR device may answer to a write
MsrWriteResponses(dev) ==
    IF dev \in MsrRegLike THEN {DevOk}
    ELSE {DevOk} \cup {DevErr(e) : e \in DevErrors}

\* the stores of the register-like devices after the calls made
msr_device_store(store, calls) ==
    [d \in DOMAIN store |->
        IF \E i \in 1..Len(calls) : calls[i].dev = d /\ calls[i].op = "write" /\ calls[i].res.ok
        THEN calls[CHOOSE i \in 1..Len(calls) :
                      calls[i].dev = d /\ calls[i].op = "write" /\ calls[i].res.ok].value
        ELSE store[d]]

\* the exit is RDMSR and the registry handles it
call_handle_msr_read ==
    /\ phase = "exited"
    /\ exit_info.exit_reason = "MSR_READ"
    /\ \E dev_res \in MsrReadResponses(find_msr_device(DeviceList, AsU32(vcpu.rcx))) :
        LET eff == handle_msr_read(DeviceList, vcpu, dev_res)
        IN /\ vcpu' = eff.vcpu
           /\ hist' = Append(hist, Event("handle_msr_read", eff, eff.ret = Panicked))
           /\ phase' = IF eff.ret = Panicked THEN "aborted" ELSE "handled"
           /\ msr_value' = msr_device_store(msr_value, eff.calls)
    /\ UNCHANGED <<port_io_devices, memory_io_devices, msr_devices,
                   pci_devices, exit_info, first_reg, OtherVars>>

\* the exit is WRMSR and the registry handles it
call_handle_msr_write ==
    /\ phase = "exited"
    /\ exit_info.exit_reason = "MSR_WRITE"
    /\ \E dev_res \in MsrWriteResponses(find_msr_device(DeviceList, AsU32(vcpu.rcx))) :
        LET eff == handle_msr_write(DeviceList, vcpu, dev_res)
        IN /\ vcpu' = eff.vcpu
           /\ hist' = Append(hist, Event("handle_msr_write", eff, eff.ret = Panicked))
           /\ phase' = IF eff.ret = Panicked THEN "aborted" ELSE "handled"
           /\ msr_value' = msr_device_store(msr_value, eff.calls)
    /\ UNCHANGED <<port_io_devices, memory_io_devices, msr_devices,
                   pci_devices, exit_info, first_reg, OtherVars>>

\* a register-like MSR device is constructed holding some value
new_msr_device(dev, val) ==
    /\ phase = "setup"
    /\ msr_value' = [msr_value EXCEPT ![dev] = val]
    /\ UNCHANGED <<port_io_devices, memory_io_devices, msr_devices, pci_devices,
                   vcpu, exit_info, phase, hist, first_reg, OtherVars>>

NextMsr ==
    \/ \E d \in MsrRegLike, val \in MsrValues : new_msr_device(d, val)
    \/ \E d \in MsrDevs : add_msr_device(d)
    \/ \E ds \in SeqsUpTo(MsrDevs, MaxDevs) : add_msr_devices(ds)
    \/ run_vcpu
    \/ vm_exit({"MSR_READ", "MSR_WRITE"})
    \/ vm_exit_again({"MSR_READ", "MSR_WRITE"})
    \/ call_handle_msr_read
    \/ call_handle_msr_write

\* registry construction followed by the MSR exits of one vCPU
SpecMsr == Init /\ [][NextMsr]_vars

(***************************************************************************)
(* Properties.                                                             *)
(***************************************************************************)
\* the exit handled last
Last == hist[Len(hist)]
\* the last exit was handled by handler h
HandledBy(h) == Len(hist) > 0 /\ Last.handler = h
\* the last handler made exactly one device call, of kind op
OneCall(op) == Len(Last.calls) = 1 /\ Last.calls[1].op = op
\* the registered port-I/O handles whose range holds the port
PrimaryOwners(port) ==
    {port_io_devices[i] : i \in {j \in 1..Len(port_io_devices) :
        PortRangeContains(port_range(port_io_devices[j]), port)}}
\* the BAR devices on the root bus of the installed host whose range holds the port
BarOwners(port) ==
    IF pci_devices.is_some
    THEN {pci_devices.root_bus[i] : i \in {j \in 1..Len(pci_devices.root_bus) :
            PortRangeContains(port_range(pci_devices.root_bus[j]), port)}}
    ELSE {}
\* a plain (neither string nor repeat) I/O exit was handled last
PlainIo ==
    /\ HandledBy("handle_io_instruction")
    /\ ~Last.exit.is_string
    /\ ~Last.exit.is_repeat

\* C1: after a plain IN whose device read succeeds with value v, rax holds the
\* low access_size bytes of v in its low bytes; above them it keeps its old
\* bytes for sizes 1 and 2 and is zero for size 4.
C1_InMergesIntoRax ==
    (PlainIo /\ Last.exit.is_in /\ Len(Last.calls) = 1 /\ Last.calls[1].res.ok)
    => LET v == Last.calls[1].res.value
           s == Last.exit.access_size
           old == Last.pre.rax
       IN /\ Last.calls[1].op = "read"
          /\ Len(vcpu.rax) = 8
          /\ \A i \in 1..8 :
                vcpu.rax[i] = IF i <= s THEN v[i]
                              ELSE IF s = 4 THEN 0 ELSE old[i]

\* C1 witness: a 2-byte IN of 0xDEADBEEF into an all-ones rax leaves
\* 0xFFFFFFFFFFFFBEEF, and a state after a 4-byte IN exists as well
C1_Witness ==
    /\ PlainIo /\ Last.exit.is_in /\ Last.exit.access_size = 2
    /\ OneCall("read") /\ Last.calls[1].res.ok
    /\ Last.calls[1].res.value = <<\hEF, \hBE, \hAD, \hDE>>
    /\ Last.pre.rax = <<\hFF, \hFF, \hFF, \hFF, \hFF, \hFF, \hFF, \hFF>>
    /\ vcpu.rax = <<\hEF, \hBE, \hFF, \hFF, \hFF, \hFF, \hFF, \hFF>>

\* C2: a plain OUT on a port some device owns calls write exactly once with
\* (port, access_size, low access_size bytes of rax), leaves rax alone, and on
\* success advances rip by the exit's instruction length.
C2_OutWritesLowBytes ==
    (PlainIo /\ ~Last.exit.is_in
        /\ (PrimaryOwners(Last.exit.port) \cup BarOwners(Last.exit.port)) # {})
    => /\ OneCall("write")
       /\ Last.calls[1].key = Last.exit.port
       /\ Last.calls[1].size = Last.exit.access_size
       /\ Len(Last.calls[1].value) = 4
       /\ \A i \in 1..4 :
            Last.calls[1].value[i] =
                IF i <= Last.exit.access_size THEN Last.pre.rax[i] ELSE 0
       /\ vcpu.rax = Last.pre.rax
       /\ Last.calls[1].res.ok =>
            /\ Last.ret = Some(Ok)
            /\ vcpu.rip = Last.pre.rip + Last.exit.exit_instruction_length

\* C2 witness: rax with low byte 0x41, a 1-byte OUT to port 0x70 of length 2
\* gives write(0x70, 1, 0x41) and rip two further
C2_Witness ==
    /\ PlainIo /\ ~Last.exit.is_in
    /\ Last.exit.access_size = 1 /\ Last.exit.port = \h70
    /\ Last.exit.exit_instruction_length = 2
    /\ Last.pre.rax[1] = \h41 /\ Last.pre.rax[2] # 0
    /\ OneCall("write") /\ Last.calls[1].res.ok
    /\ Last.calls[1].dev = "cmos"
    /\ Last.calls[1].value = <<\h41, 0, 0, 0>>
    /\ vcpu.rip = Last.pre.rip + 2

\* C3 as claimed: every string or repeat I/O exit dispatched through
\* handle_io_instruction yields NotSupported, with no register change and no
\* device read or write.
C3_StringRepeatAlwaysNotSupported ==
    (HandledBy("handle_io_instruction")
        /\ (Last.exit.is_string \/ Last.exit.is_repeat))
    => /\ Last.ret = Some(Err("NotSupported"))
       /\ vcpu = Last.pre
       /\ Last.calls = <<>>

\* C3 amended: a string or repeat I/O exit yields NotSupported when a
\* registered port-I/O device or a PCI BAR owns the port and "not handled"
\* when none does; either way no register changes and no device is read or
\* written.
C3_StringRepeatRejected ==
    (HandledBy("handle_io_instruction")
        /\ (Last.exit.is_string \/ Last.exit.is_repeat))
    => /\ Last.ret =
            IF (PrimaryOwners(Last.exit.port) \cup BarOwners(Last.exit.port)) # {}
            THEN Some(Err("NotSupported")) ELSE None
       /\ vcpu = Last.pre
       /\ Last.calls = <<>>

\* C3 witness: a repeat-only IN on a port the CMOS device owns was rejected
C3_Witness ==
    /\ HandledBy("handle_io_instruction")
    /\ Last.exit.is_repeat /\ ~Last.exit.is_string /\ Last.exit.is_in
    /\ PrimaryOwners(Last.exit.port) = {"cmos"}
    /\ Last.ret = Some(Err("NotSupported"))
    /\ vcpu = Last.pre

\* C4: in the I/O protocol rip advances, by exactly the exit's instruction
\* length, if and only if the device read or write succeeded; a device error
\* is returned as it came, after one attempt, with rax and rip unchanged.
C4_AdvanceIffDeviceSucceeded ==
    HandledBy("handle_io_instruction")
    => LET succeeded == Len(Last.calls) = 1 /\ Last.calls[1].res.ok
       IN /\ Len(Last.calls) <= 1
          /\ succeeded <=>
                vcpu.rip = Last.pre.rip + Last.exit.exit_instruction_length
          /\ ~succeeded => vcpu.rip = Last.pre.rip
          /\ succeeded <=> (Last.ret = Some(Ok))
          /\ (Len(Last.calls) = 1 /\ ~Last.calls[1].res.ok) =>
                /\ Last.ret = Some(Err(Last.calls[1].res.err))
                /\ vcpu = Last.pre

\* C4 witness: a device read failed with NotFound and that error came back
C4_Witness ==
    /\ PlainIo /\ Last.exit.is_in
    /\ OneCall("read") /\ ~Last.calls[1].res.ok
    /\ Last.calls[1].res.err = "NotFound"
    /\ Last.ret = Some(Err("NotFound"))
    /\ vcpu = Last.pre

\* C5: with no PCI host installed, an I/O exit on a port in no registered
\* device's range is "not handled": no register changes, no device is called.
C5_UnownedPortNotHandled ==
    (HandledBy("handle_io_instruction")
        /\ ~pci_devices.is_some
        /\ PrimaryOwners(Last.exit.port) = {})
    => /\ Last.ret = None
       /\ vcpu = Last.pre
       /\ Last.calls = <<>>

\* C5 witness: devices are registered, none owns the port of the plain IN,
\* there is no PCI host, and the exit was not handled
C5_Witness ==
    /\ PlainIo /\ Last.exit.is_in
    /\ ~pci_devices.is_some
    /\ Len(port_io_devices) = 2
    /\ PrimaryOwners(Last.exit.port) = {}
    /\ Last.ret = None

\* the handle registered earliest among the registered `owners` of a key
Earliest(owners) ==
    LET cands == {d \in owners : first_reg[d] > 0}
    IN IF cands = {} THEN NoDev
       ELSE CHOOSE d \in cands : \A e \in cands : first_reg[d] <= first_reg[e]

\* C6: after any sequence of add_* calls each find_* returns the
\* earliest-registered handle whose declared range holds the key, and none
\* when no registered range holds it.
C6_FirstRegisteredWins ==
    /\ \A port \in Ports :
        find_port_io_device(DeviceList, port) =
            Earliest({d \in PortDevs : PortRangeContains(port_range(d), port)})
    /\ \A address \in Addrs :
        find_memory_io_device(DeviceList, address) =
            Earliest({d \in MmioDevs : RangeContains(mmio_range(d), address)})
    /\ \A msr \in Msrs :
        find_msr_device(DeviceList, msr) =
            Earliest({d \in MsrDevs : RangeContains(msr_range(d), msr)})

\* C6 witness: [0x71,0x73) was registered before [0x70,0x72) and port 0x71
\* finds it, while 0x70 finds the CMOS device; likewise for the overlapping
\* memory and MSR devices
C6_Witness ==
    /\ port_io_devices = <<"dev71", "cmos">>
    /\ find_port_io_device(DeviceList, \h71) = "dev71"
    /\ find_port_io_device(DeviceList, \h70) = "cmos"
    /\ find_port_io_device(DeviceList, \h73) = NoDev
    /\ memory_io_devices = <<"mmio_b", "mmio_a">>
    /\ find_memory_io_device(DeviceList, U64(<<8, \h10, \hE0, \hFE>>)) = "mmio_b"
    /\ msr_devices = <<"msr_any", "msr_reg">>
    /\ find_msr_device(DeviceList, U32(<<\hE1>>)) = "msr_any"

\* C7: the root bus is asked for a BAR exactly when the primary list missed
\* and a PCI host is installed; a port owned by a primary device is serviced
\* by a primary device even if a BAR holds it too, a port owned only by a BAR
\* is serviced by the BAR device under the same I/O protocol and handled, and
\* a port owned by neither is not handled.
C7_PciAfterPrimary ==
    HandledBy("handle_io_instruction")
    => LET prim == PrimaryOwners(Last.exit.port)
           bars == BarOwners(Last.exit.port)
           answer == IF Len(Last.calls) = 1 THEN Last.calls[1].res ELSE DevOk
       IN /\ Last.pci_asked <=> (prim = {} /\ pci_devices.is_some)
          /\ prim # {} =>
                /\ Last.ret.is_some
                /\ \A i \in 1..Len(Last.calls) : Last.calls[i].dev \in prim
          /\ (prim = {} /\ bars # {}) =>
                /\ Last.ret.is_some
                /\ \E b \in bars :
                    LET e == handle_io_instruction_to_device(Last.pre, Last.exit, b, answer)
                    IN /\ Last.ret = Some(e.ret)
                       /\ vcpu = e.vcpu
                       /\ Last.calls = e.calls
          /\ (prim = {} /\ bars = {}) =>
                /\ Last.ret = None
                /\ vcpu = Last.pre
                /\ Last.calls = <<>>

\* C7 witness: port 0x72 is held by a primary device and by the BAR, and the
\* primary device answered the read
C7_Witness ==
    /\ PlainIo /\ Last.exit.is_in /\ Last.exit.port = \h72
    /\ PrimaryOwners(\h72) = {"dev71"}
    /\ BarOwners(\h72) = {"bar"}
    /\ OneCall("read") /\ Last.calls[1].dev = "dev71"
    /\ Last.ret = Some(Ok)
    /\ ~Last.pci_asked

\* the registered MSR handles whose range holds the index
MsrOwners(msr) ==
    {msr_devices[i] : i \in {j \in 1..Len(msr_devices) :
        RangeContains(msr_range(msr_devices[j]), msr)}}
\* the low 32 bits of a u64
Low32(x) == <<x[1], x[2], x[3], x[4]>>
\* the high 32 bits of a u64
High32(x) == <<x[5], x[6], x[7], x[8]>>

\* C8: when a device owns the index in the low half of rcx and its read
\* returns v, then rax = v mod 2^32, rdx = v div 2^32, rcx is unchanged and
\* rip is 2 further.
C8_RdmsrSplitsValue ==
    (HandledBy("handle_msr_read") /\ MsrOwners(Low32(Last.pre.rcx)) # {})
    => /\ OneCall("read")
       /\ Last.calls[1].key = Low32(Last.pre.rcx)
       /\ Last.calls[1].dev \in MsrOwners(Low32(Last.pre.rcx))
       /\ Last.calls[1].res.ok =>
            LET v == Last.calls[1].res.value
            IN /\ vcpu.rax = Low32(v) \o <<0, 0, 0, 0>>
               /\ vcpu.rdx = High32(v) \o <<0, 0, 0, 0>>
               /\ vcpu.rcx = Last.pre.rcx
               /\ vcpu.rip = Last.pre.rip + 2
               /\ Last.ret = Ok

\* C8 witness: RDMSR with garbage in the upper half of rcx read
\* 0x0123456789ABCDEF: rax = 0x89ABCDEF, rdx = 0x01234567
C8_Witness ==
    /\ HandledBy("handle_msr_read")
    /\ High32(Last.pre.rcx) # <<0, 0, 0, 0>>
    /\ OneCall("read") /\ Last.calls[1].res.ok
    /\ Last.calls[1].res.value = <<\hEF, \hCD, \hAB, \h89, \h67, \h45, \h23, \h01>>
    /\ vcpu.rax = <<\hEF, \hCD, \hAB, \h89, 0, 0, 0, 0>>
    /\ vcpu.rdx = <<\h67, \h45, \h23, \h01, 0, 0, 0, 0>>

\* C9: when a device owns the index in the low half of rcx, WRMSR calls its
\* write exactly once with that index and the value whose low half is the low
\* half of rax and whose high half is the low half of rdx; on success rax, rdx
\* and rcx are unchanged and rip is 2 further.
C9_WrmsrCombinesHalves ==
    (HandledBy("handle_msr_write") /\ MsrOwners(Low32(Last.pre.rcx)) # {})
    => /\ OneCall("write")
       /\ Last.calls[1].key = Low32(Last.pre.rcx)
       /\ Last.calls[1].dev \in MsrOwners(Low32(Last.pre.rcx))
       /\ Last.calls[1].value = Low32(Last.pre.rax) \o Low32(Last.pre.rdx)
       /\ Last.calls[1].res.ok =>
            /\ vcpu.rax = Last.pre.rax
            /\ vcpu.rdx = Last.pre.rdx
            /\ vcpu.rcx = Last.pre.rcx
            /\ vcpu.rip = Last.pre.rip + 2
            /\ Last.ret = Ok

\* C9 witness: rax and rdx both have bits in their upper halves and the
\* write succeeded
C9_Witness ==
    /\ HandledBy("handle_msr_write")
    /\ High32(Last.pre.rax) # <<0, 0, 0, 0>>
    /\ High32(Last.pre.rdx) # <<0, 0, 0, 0>>
    /\ OneCall("write") /\ Last.calls[1].res.ok
    /\ Last.calls[1].value = <<\h41, \h77, \h66, \h55, 1, 0, 0, 0>>
    /\ Last.ret = Ok

\* C10: on a device whose read returns the last value written, RDMSR followed
\* by WRMSR on the same index with rax/rdx as the read left them writes back
\* the stored value v: the store is as before the read and rip is 4 further.
C10_ReadThenWriteRoundTrips ==
    (Len(hist) >= 2
        /\ hist[Len(hist) - 1].handler = "handle_msr_read"
        /\ hist[Len(hist) - 1].ret = Ok
        /\ hist[Len(hist) - 1].calls[1].dev \in MsrRegLike
        /\ Last.handler = "handle_msr_write"
        /\ Last.ret = Ok)
    => LET rd == hist[Len(hist) - 1]
           d == rd.calls[1].dev
           v == rd.msr_before[d]
       IN /\ OneCall("write")
          /\ Last.calls[1].dev = d
          /\ Last.calls[1].key = rd.calls[1].key
          /\ Last.calls[1].value = v
          /\ msr_value[d] = v
          /\ vcpu.rip = rd.pre.rip + 4

\* C10 witness: the device stored 0x0123456789ABCDEF, was read and written
\* back, and stores it still
C10_Witness ==
    /\ Len(hist) >= 2
    /\ hist[Len(hist) - 1].handler = "handle_msr_read"
    /\ hist[Len(hist) - 1].ret = Ok
    /\ hist[Len(hist) - 1].calls[1].dev = "msr_reg"
    /\ hist[Len(hist) - 1].msr_before["msr_reg"] =
            <<\hEF, \hCD, \hAB, \h89, \h67, \h45, \h23, \h01>>
    /\ Last.handler = "handle_msr_write"
    /\ Last.ret = Ok
    /\ msr_value["msr_reg"] = <<\hEF, \hCD, \hAB, \h89, \h67, \h45, \h23, \h01>>

\* the last handler's device call failed
DeviceFailed == Len(Last.calls) > 0 /\ ~Last.calls[Len(Last.calls)].res.ok

\* C11: when handle_msr_read or handle_msr_write finds no device covering the
\* index, or the device's read or write fails, the handler does not return
\* "handled": the vCPU is in the fatal state, with rax, rdx and rcx as they
\* were and rip not advanced.
C11_MsrMissOrErrorAborts ==
    ((HandledBy("handle_msr_read") \/ HandledBy("handle_msr_write"))
        /\ (MsrOwners(Low32(Last.pre.rcx)) = {} \/ DeviceFailed))
    => /\ Last.ret # Ok
       /\ Last.aborted
       /\ phase = "aborted"
       /\ vcpu = Last.pre
       /\ msr_value = Last.msr_before

\* C11 witness: RDMSR of 0xC0011029, which no device covers, with rax nonzero
\* before, ended in the fatal state
C11_Witness ==
    /\ HandledBy("handle_msr_read")
    /\ Low32(Last.pre.rcx) = <<\h29, \h10, \h01, \hC0>>
    /\ MsrOwners(Low32(Last.pre.rcx)) = {}
    /\ msr_devices # <<>>
    /\ phase = "aborted"
    /\ vcpu.rip = Last.pre.rip

(***************************************************************************)
(* Periodic events of a vCPU.  Times are in microseconds: the clock is     *)
(* read at multiples of 1000 ns, so that 1_000_000 ns is 1000 and          *)
(* 5_000_000_000 ns is 5000000.                                            *)
(***************************************************************************)
\* check_events calls made on the vCPU
MaxChecks == 4
\* events the vCPU holds pending at most
MaxPending == 3

\* the vector of the periodic tick
TICK_VECTOR == 48
\* 1_000_000 ns between two ticks
TICK_PERIOD == 1000
\* 5_000_000_000 ns before the first tick
TICK_DELAY == 5000000

\* by how much the clock has advanced when check_events reads it
ClockSteps == {0, 1, TICK_PERIOD, TICK_PERIOD + 1, TICK_DELAY}
\* the vectors the guest may have programmed into the APIC timer
ApicVectors == {\hEC, TICK_VECTOR}
\* the masks the guest may have written to the master PIC
PicMasks == {\h00, \h01, \hFE}

\* BitField::get_bit
get_bit(x, i) == (x \div (2 ^ i)) % 2 = 1

\* what one check_events call leaves in `last` and queues to the vCPU
CheckResult(l, apic, tick) ==
    [last |-> l, apic |-> apic, tick |-> tick, queued |-> apic \o tick]

\* check_events gone wrong: the first call arms the tick without the delay
check_events_no_delay(self, now, apic_due, apic_vector) ==
    LET apic == IF apic_due THEN <<apic_vector>> ELSE <<>>
    IN IF self.last.is_some
       THEN IF now > TICK_PERIOD + self.last.val
            THEN CheckResult(LastSome(now), apic,
                             IF ~get_bit(self.pic_mask, 0) THEN <<TICK_VECTOR>> ELSE <<>>)
            ELSE CheckResult(self.last, apic, <<>>)
       ELSE CheckResult(LastSome(now), apic, <<>>)

\* check_events gone wrong: the tick is queued whatever the PIC mask
check_events_unmasked(self, now, apic_due, apic_vector) ==
    LET apic == IF apic_due THEN <<apic_vector>> ELSE <<>>
    IN IF self.last.is_some
       THEN IF now > TICK_PERIOD + self.last.val
            THEN CheckResult(LastSome(now), apic, <<TICK_VECTOR>>)
            ELSE CheckResult(self.last, apic, <<>>)
       ELSE CheckResult(LastSome(now + TICK_DELAY), apic, <<>>)

\* check_events: the APIC timer's event when it is due, then the periodic
\* tick; `now` is the reading of the clock, `apic` the events the first part
\* queued and `tick` those the second part queued
check_events(self, now, apic_due, apic_vector) ==
    LET apic == IF apic_due THEN <<apic_vector>> ELSE <<>>
    IN IF self.last.is_some
       THEN IF now > TICK_PERIOD + self.last.val
            THEN CheckResult(LastSome(now), apic,
                             IF ~get_bit(self.pic_mask, 0) THEN <<TICK_VECTOR>> ELSE <<>>)
            ELSE CheckResult(self.last, apic, <<>>)
       ELSE CheckResult(LastSome(now + TICK_DELAY), apic, <<>>)

\* the scheduling quantum's hook: check_events runs on the vCPU
call_check_events ==
    /\ check_hist.calls < MaxChecks
    /\ Len(pending_events) + 2 <= MaxPending
    /\ \E dt \in ClockSteps, apic_due \in BOOLEAN, apic_vector \in ApicVectors :
        LET now == clock + dt
            r == check_events([last |-> last, pic_mask |-> pic_mask],
                              now, apic_due, apic_vector)
        IN /\ clock' = now
           /\ last' = r.last
           /\ pending_events' = pending_events \o r.queued
           /\ check_hist' =
                [calls |-> check_hist.calls + 1,
                 first_now |-> IF check_hist.calls = 0 THEN now ELSE check_hist.first_now,
                 now |-> now,
                 last_before |-> last,
                 mask_bit |-> get_bit(pic_mask, 0),
                 queued |-> r.queued,
                 apic |-> r.apic,
                 tick |-> r.tick # <<>>,
                 prev_tick |-> IF check_hist.tick THEN check_hist.now
                               ELSE check_hist.prev_tick]
    /\ UNCHANGED <<pic_mask, TimerRest>>

\* the guest writes the interrupt mask register of the master PIC
pic_write_mask(m) ==
    /\ pic_mask # m
    /\ pic_mask' = m
    /\ UNCHANGED <<last, clock, pending_events, check_hist, TimerRest>>

\* the vCPU injects its oldest pending event on VM entry
inject_pending_event ==
    /\ pending_events # <<>>
    /\ pending_events' = Tail(pending_events)
    /\ UNCHANGED <<last, clock, pic_mask, check_hist, TimerRest>>

NextTimer ==
    \/ call_check_events
    \/ \E m \in PicMasks : pic_write_mask(m)
    \/ inject_pending_event

\* one vCPU's check_events calls under a clock that never goes back
SpecTimer == Init /\ [][NextTimer]_vars

\* how many of the events are the tick's vector
Ticks(events) == Cardinality({i \in 1..Len(events) : events[i] = TICK_VECTOR})
\* the last call found more than the period elapsed since the recorded time
PeriodElapsed ==
    /\ check_hist.last_before.is_some
    /\ check_hist.now > TICK_PERIOD + check_hist.last_before.val

\* C12 as claimed: the periodic tick is not queued before 5 s after the first
\* call, no call queues more than one 0x30, and two consecutive tick firings
\* are more than 1 ms apart.
C12_OneTickVectorPerCall ==
    check_hist.calls > 0
    => /\ check_hist.tick => check_hist.now >= check_hist.first_now + TICK_DELAY
       /\ check_hist.calls = 1 => ~check_hist.tick
       /\ Ticks(check_hist.queued) <= 1
       /\ (check_hist.tick /\ check_hist.prev_tick >= 0)
            => check_hist.now - check_hist.prev_tick > TICK_PERIOD

\* C12: the periodic tick is not queued before 5 s after the first call (the
\* first call only arms it), the periodic-tick part of a call queues at most
\* one 0x30 (the APIC-timer part of the same call queues at most one event
\* of its own, whose vector is the guest's choice), and two consecutive tick
\* firings are more than 1 ms apart.
C12_TickPaced ==
    check_hist.calls > 0
    => /\ check_hist.tick => check_hist.now >= check_hist.first_now + TICK_DELAY
       /\ check_hist.calls = 1 => ~check_hist.tick
       /\ Ticks(check_hist.queued) - Ticks(check_hist.apic) <= 1
       /\ Len(check_hist.apic) <= 1
       /\ check_hist.tick <=> Ticks(check_hist.queued) - Ticks(check_hist.apic) = 1
       /\ (check_hist.tick /\ check_hist.prev_tick >= 0)
            => check_hist.now - check_hist.prev_tick > TICK_PERIOD

\* C12 witness: the tick fired twice, 1001 microseconds apart
C12_Witness ==
    /\ check_hist.tick
    /\ check_hist.prev_tick >= 0
    /\ check_hist.now - check_hist.prev_tick = TICK_PERIOD + 1
    /\ check_hist.queued = <<TICK_VECTOR>>

\* C13 as claimed: a call queues 0x30 only with bit 0 of the master PIC's mask
\* clear, and a call that finds the period elapsed with the bit clear queues
\* exactly one 0x30.
C13_TickVectorOnlyUnmasked ==
    check_hist.calls > 0
    => /\ Ticks(check_hist.queued) > 0 => ~check_hist.mask_bit
       /\ (PeriodElapsed /\ ~check_hist.mask_bit) => Ticks(check_hist.queued) = 1

\* C13: the periodic-tick part of a call queues 0x30 only with bit 0 of the
\* master PIC's mask clear, whatever the time elapsed, and in a call that
\* finds the period elapsed with the bit clear it queues exactly one 0x30;
\* the event of the APIC-timer part does not depend on the mask.
C13_TickOnlyUnmasked ==
    check_hist.calls > 0
    => /\ check_hist.tick => ~check_hist.mask_bit
       /\ check_hist.mask_bit => Ticks(check_hist.queued) = Ticks(check_hist.apic)
       /\ (PeriodElapsed /\ ~check_hist.mask_bit)
            => /\ check_hist.tick
               /\ Ticks(check_hist.queued) - Ticks(check_hist.apic) = 1
       /\ check_hist.tick => PeriodElapsed

\* C13 witness: the period had elapsed but the bit was set: no tick was
\* queued and the time was recorded
C13_Witness ==
    /\ PeriodElapsed
    /\ check_hist.mask_bit
    /\ check_hist.queued = <<>>
    /\ last = LastSome(check_hist.now)
    /\ check_hist.prev_tick >= 0

(***************************************************************************)
(* NMI messages between physical CPUs.                                     *)
(***************************************************************************)
\* BootVm messages sent in all
MaxMsgs == 3
\* the VMs a message may ask to boot
VmIds == {1, 2}

\* the queue's pop: one message off one end, None when the queue is empty
NmiPop(q, front) ==
    IF q = <<>> THEN [msg |-> NoMsg, rest |-> <<>>]
    ELSE IF front THEN [msg |-> Head(q), rest |-> Tail(q)]
    ELSE [msg |-> q[Len(q)], rest |-> SubSeq(q, 1, Len(q) - 1)]

\* nmi_handler gone wrong: the popped message boots its VM twice
nmi_handler_boots_twice(msg) ==
    IF msg.is_some
    THEN [booted |-> <<msg.vm_id, msg.vm_id>>, ret |-> Ok0]
    ELSE [booted |-> <<>>, ret |-> Ok0]

\* nmi_handler gone wrong: a spurious NMI is an error
nmi_handler_spurious_fails(msg) ==
    IF msg.is_some
    THEN [booted |-> <<msg.vm_id>>, ret |-> [ok |-> FALSE, val |-> 0]]
    ELSE [booted |-> <<>>, ret |-> [ok |-> FALSE, val |-> 0]]

\* nmi_handler after the pop: the match on the message
nmi_handler(msg) ==
    IF msg.is_some
    THEN [booted |-> <<msg.vm_id>>, ret |-> Ok0]
    ELSE [booted |-> <<>>, ret |-> Ok0]

\* another core queues BootVm(vm_id) for CPU c
send_nmi_message(c, vm_id) ==
    /\ Len(nmi_log.sent) < MaxMsgs
    /\ LET m == SomeBootVm(vm_id, Len(nmi_log.sent) + 1)
       IN /\ CPU_NMI_LIST' = [CPU_NMI_LIST EXCEPT ![c] = Append(@, m)]
          /\ nmi_log' = [nmi_log EXCEPT !.sent = Append(@, m)]
    /\ UNCHANGED <<nmi_state, NmiRest>>

\* an NMI on CPU c: nmi_handler pops one message under the queue's lock
nmi_handler_pop(c) ==
    /\ nmi_state[c].pc = "idle"
    /\ \E front \in BOOLEAN :
        LET p == NmiPop(CPU_NMI_LIST[c], front)
            after == [CPU_NMI_LIST EXCEPT ![c] = p.rest]
        IN /\ CPU_NMI_LIST' = after
           /\ nmi_state' = [nmi_state EXCEPT ![c] = [pc |-> "popped", msg |-> p.msg]]
           /\ nmi_log' = [nmi_log EXCEPT
                            !.popped = IF p.msg.is_some THEN Append(@, p.msg) ELSE @,
                            !.run[c] = [ran |-> TRUE, done |-> FALSE,
                                        before |-> CPU_NMI_LIST, after |-> after,
                                        msg |-> p.msg, booted |-> <<>>, ret |-> Ok0]]
    /\ UNCHANGED NmiRest

\* nmi_handler on CPU c acts on the message it popped and returns
nmi_handler_match(c) ==
    /\ nmi_state[c].pc = "popped"
    /\ LET r == nmi_handler(nmi_state[c].msg)
       IN nmi_log' = [nmi_log EXCEPT
                        !.boots = @ \o r.booted,
                        !.run[c].done = TRUE,
                        !.run[c].booted = r.booted,
                        !.run[c].ret = r.ret]
    /\ nmi_state' = [nmi_state EXCEPT ![c] = [pc |-> "idle", msg |-> NoMsg]]
    /\ UNCHANGED <<CPU_NMI_LIST, NmiRest>>

NextNmi ==
    \/ \E c \in NmiCpus, id \in VmIds : send_nmi_message(c, id)
    \/ \E c \in NmiCpus : nmi_handler_pop(c)
    \/ \E c \in NmiCpus : nmi_handler_match(c)

\* senders and NMI handlers of the CPUs, interleaved
SpecNmi == Init /\ [][NextNmi]_vars

\* the messages of a sequence
Elems(q) == {q[i] : i \in 1..Len(q)}
\* how often VM id was booted, has a popped message not yet acted on, had a
\* message popped, had a message sent
BootsOf(id) == Cardinality({i \in 1..Len(nmi_log.boots) : nmi_log.boots[i] = id})
InFlightOf(id) ==
    Cardinality({c \in NmiCpus : nmi_state[c].msg.is_some /\ nmi_state[c].msg.vm_id = id})
PoppedOf(id) == Cardinality({i \in 1..Len(nmi_log.popped) : nmi_log.popped[i].vm_id = id})
SentOf(id) == Cardinality({i \in 1..Len(nmi_log.sent) : nmi_log.sent[i].vm_id = id})

\* what holds of the queues, the pops and the boots in every interleaving
NmiAccounting ==
    /\ \A i, j \in 1..Len(nmi_log.popped) :
        i # j => nmi_log.popped[i] # nmi_log.popped[j]
    /\ \A c \in NmiCpus : Elems(CPU_NMI_LIST[c]) \cap Elems(nmi_log.popped) = {}
    /\ Elems(nmi_log.popped) \subseteq Elems(nmi_log.sent)
    /\ \A id \in VmIds :
        /\ BootsOf(id) + InFlightOf(id) = PoppedOf(id)
        /\ BootsOf(id) <= SentOf(id)
    /\ \A c \in NmiCpus :
        LET run == nmi_log.run[c]
        IN run.ran =>
            /\ \A d \in NmiCpus \ {c} : run.after[d] = run.before[d]
            /\ IF run.before[c] = <<>>
               THEN ~run.msg.is_some /\ run.after[c] = <<>>
               ELSE /\ run.msg.is_some
                    /\ Len(run.after[c]) = Len(run.before[c]) - 1
                    /\ Elems(run.after[c]) = Elems(run.before[c]) \ {run.msg}
            /\ run.done =>
                run.booted = IF run.msg.is_some THEN <<run.msg.vm_id>> ELSE <<>>

\* C14 as claimed: a message is consumed at most once, and exactly once when
\* an NMI was handled on its CPU while it was queued; a consumption boots
\* its VM exactly once; a handler run consumes at most one message, and only
\* from its own CPU's queue; a VM is booted no more often than messages for
\* it were sent.
C14_HandledNmiConsumesQueued ==
    /\ NmiAccounting
    /\ \A c \in NmiCpus :
        (nmi_log.run[c].ran /\ nmi_log.run[c].done)
        => Elems(nmi_log.run[c].before[c]) \subseteq Elems(nmi_log.popped)

\* C14: a message is consumed at most once, and exactly once when it is the
\* message that an NMI handled on its CPU pops (one handler run takes one
\* message and leaves the others of that queue queued); a consumption boots
\* its VM exactly once; a handler run consumes at most one message, and only
\* from its own CPU's queue; a VM is booted no more often than messages for
\* it were sent.
C14_OneMessagePerNmi ==
    /\ NmiAccounting
    /\ \A c \in NmiCpus :
        nmi_log.run[c].ran
        => Elems(nmi_log.run[c].after[c]) \subseteq
            UNION {Elems(CPU_NMI_LIST[d]) : d \in NmiCpus} \cup Elems(nmi_log.popped)

\* C14 witness: two messages were queued on CPU 0 when its handler ran; it
\* popped one and booted that VM once, the other is still queued
C14_Witness ==
    /\ nmi_log.run[0].done
    /\ Len(nmi_log.run[0].before[0]) = 2
    /\ Len(CPU_NMI_LIST[0]) = 1
    /\ Len(nmi_log.boots) = 1
    /\ nmi_log.boots = nmi_log.run[0].booted

\* C15: a handler run that found its CPU's queue empty boots no VM, leaves
\* every queue as it was and returns Ok(0).
C15_SpuriousNmiIsBenign ==
    \A c \in NmiCpus :
        (nmi_log.run[c].ran /\ nmi_log.run[c].before[c] = <<>>)
        => /\ nmi_log.run[c].after = nmi_log.run[c].before
           /\ ~nmi_log.run[c].msg.is_some
           /\ nmi_log.run[c].done
                => /\ nmi_log.run[c].booted = <<>>
                   /\ nmi_log.run[c].ret = Ok0

\* C15 witness: CPU 1 handled an NMI with its queue empty while a message
\* waited on CPU 0; nothing was booted and the message still waits
C15_Witness ==
    /\ nmi_log.run[1].done
    /\ nmi_log.run[1].before[1] = <<>>
    /\ nmi_log.run[1].before[0] # <<>>
    /\ nmi_log.run[1].ret = Ok0
    /\ nmi_log.boots = <<>>
    /\ CPU_NMI_LIST[0] # <<>>

(***************************************************************************)
(* The exit handlers of the per-vCPU and of the per-VM device set.         *)
(***************************************************************************)
\* the physical vector the hypervisor forwards to the host, 0xf0
HOST_IRQ_VECTOR == 240

\* exits of reasons neither registry call covers
OtherExits ==
    { [NoExit EXCEPT !.exit_reason = r] :
        r \in {"EXTERNAL_INTERRUPT", "EPT_VIOLATION", "HLT"} }
\* the exits delivered to the device sets
DispatchExits ==
    {e \in IoExits : e.exit_instruction_length = 1 /\ e.access_size = 1 /\ ~e.is_repeat}
        \cup MsrExits \cup OtherExits
\* what vcpu.interrupt_exit_info() may return
IntInfos ==
    {IntInfoErr("BadState")}
        \cup {IntInfoOk(vec, valid) : vec \in {HOST_IRQ_VECTOR, \h30, \hF1}, valid \in BOOLEAN}
\* what vcpu.nested_page_fault_info() may return
NpfInfos ==
    {NpfInfoErr("BadState")}
        \cup {NpfInfoOk(a, w) : a \in {U64(<<0, 0, \hE0, \hFE>>), U64(<<0, \h30, \hE0, \hFE>>)},
                                w \in BOOLEAN}
\* the decoded instructions handed over: an undecodable one, mov r32, [m],
\* mov [m], r16 and mov byte [m], imm8
Instrs ==
    {SomeInstr("INVALID", "Register", "Register", "Register", 0, 0),
     SomeInstr("Mov_r32_rm32", "Register", "Memory", "Register", 4, 4),
     SomeInstr("Mov_rm16_r16", "Memory", "Register", "Register", 0, 2),
     SomeInstr("Mov_rm8_imm8", "Memory", "Immediate8", "Register", 0, 1)}
\* what comes with an exit of each reason
ExitArgs(exit) ==
    IF exit.exit_reason = "EXTERNAL_INTERRUPT"
    THEN {[NoArg EXCEPT !.int_info = i] : i \in IntInfos}
    ELSE IF exit.exit_reason = "EPT_VIOLATION"
    THEN {[NoArg EXCEPT !.npf_info = n, !.instr = i] :
            n \in NpfInfos, i \in Instrs \cup {NoInstr}}
    ELSE {NoArg}

\* the guest leaves to the hypervisor with an exit of any of these reasons
vm_exit_dispatch ==
    /\ phase = "guest"
    /\ \E e \in DispatchExits : \E a \in ExitArgs(e) :
        /\ exit_info' = e
        /\ exit_arg' = a
    /\ phase' = "exited"
    /\ UNCHANGED <<port_io_devices, memory_io_devices, msr_devices, pci_devices,
                   vcpu, msr_value, hist, first_reg, TimerVars, NmiVars, BootVars,
                   size_call, lock_state, vm_devices>>

\* HyperResult<u8>
SizeOk(n) == [ok |-> TRUE, err |-> "-", val |-> n]
SizeErr(e) == [ok |-> FALSE, err |-> e, val |-> 0]

\* one of the three operands is of the kind
HasOpKind(instruction, kind) ==
    \/ instruction.op0_kind = kind
    \/ instruction.op1_kind = kind
    \/ instruction.op2_kind = kind

get_access_size(instruction) ==
    IF instruction.code = "INVALID" THEN SizeErr("DecodeError")
    ELSE LET size ==
                IF HasOpKind(instruction, "Register") THEN instruction.op0_register_size
                ELSE IF HasOpKind(instruction, "Memory") THEN instruction.memory_size
                ELSE IF HasOpKind(instruction, "Immediate8") THEN 1
                ELSE IF HasOpKind(instruction, "Immediate16") THEN 2
                ELSE IF HasOpKind(instruction, "Immediate32") THEN 4
                ELSE IF HasOpKind(instruction, "Immediate64") THEN 8
                ELSE 0
         IN SizeOk(size % 256)

\* handle_mmio_instruction gone wrong: the fault is forwarded to the device
\* that owns the address
handle_mmio_instruction_to_owner(self, v, exit, instr, npf_info) ==
    IF instr.is_some
    THEN IF ~npf_info.ok THEN Effect(Panicked, v, <<>>)
         ELSE IF ~get_access_size(instr).ok THEN Effect(Panicked, v, <<>>)
         ELSE LET dev == find_memory_io_device(self, npf_info.fault_guest_paddr)
              IN IF dev # NoDev
                 THEN Effect(Some(Ok), v,
                             <<Call(dev, IF npf_info.write THEN "write" ELSE "read",
                                    npf_info.fault_guest_paddr,
                                    get_access_size(instr).val, <<>>, DevOk)>>)
                 ELSE Effect(None, v, <<>>)
    ELSE Effect(None, v, <<>>)

\* handle_mmio_instruction: the two expect()s may panic, every other path
\* returns None
handle_mmio_instruction(self, v, exit, instr, npf_info) ==
    IF instr.is_some
    THEN IF ~npf_info.ok THEN Effect(Panicked, v, <<>>)
         ELSE IF ~get_access_size(instr).ok THEN Effect(Panicked, v, <<>>)
         ELSE Effect(None, v, <<>>)
    ELSE Effect(None, v, <<>>)

\* handle_external_interrupt gone wrong: any valid vector is dispatched
handle_external_interrupt_any_vector(v, int_info, irq_res) ==
    IF ~int_info.ok THEN Effect(Err(int_info.err), v, <<>>)
    ELSE IF ~int_info.valid THEN Effect(Panicked, v, <<>>)
    ELSE Effect(irq_res, v,
                <<Call("host", "dispatch_host_irq", int_info.vector, 0, <<>>, irq_res)>>)

\* handle_external_interrupt: `?` returns the error of interrupt_exit_info,
\* panic! and assert! end in the fatal state
handle_external_interrupt(v, int_info, irq_res) ==
    IF ~int_info.ok THEN Effect(Err(int_info.err), v, <<>>)
    ELSE IF int_info.vector # HOST_IRQ_VECTOR THEN Effect(Panicked, v, <<>>)
    ELSE IF ~int_info.valid THEN Effect(Panicked, v, <<>>)
    ELSE Effect(irq_res, v,
                <<Call("host", "dispatch_host_irq", int_info.vector, 0, <<>>, irq_res)>>)

\* Some(result) of a handler that returned
WrapSome(eff) == IF eff.ret = Panicked THEN eff ELSE [eff EXCEPT !.ret = Some(eff.ret)]

\* X64VcpuDevices::vmexit_handler gone wrong: every exit is answered
X64VcpuDevices_vmexit_handler_all(self, v, exit, res) ==
    CASE exit.exit_reason = "IO_INSTRUCTION" -> handle_io_instruction(self, v, exit, res)
      [] exit.exit_reason = "MSR_READ" -> WrapSome(handle_msr_read(self, v, res))
      [] exit.exit_reason = "MSR_WRITE" -> WrapSome(handle_msr_write(self, v, res))
      [] OTHER -> Effect(Some(Ok), advance_rip(v, exit.exit_instruction_length), <<>>)

\* X64VcpuDevices::vmexit_handler gone wrong: an I/O exit is handled by the
\* registry and reported as not handled
X64VcpuDevices_vmexit_handler_unreported(self, v, exit, res) ==
    CASE exit.exit_reason = "IO_INSTRUCTION" ->
            [handle_io_instruction(self, v, exit, res) EXCEPT !.ret = None]
      [] exit.exit_reason = "MSR_READ" -> WrapSome(handle_msr_read(self, v, res))
      [] exit.exit_reason = "MSR_WRITE" -> WrapSome(handle_msr_write(self, v, res))
      [] OTHER -> Effect(None, v, <<>>)

\* X64VcpuDevices::vmexit_handler
X64VcpuDevices_vmexit_handler(self, v, exit, res) ==
    CASE exit.exit_reason = "IO_INSTRUCTION" -> handle_io_instruction(self, v, exit, res)
      [] exit.exit_reason = "MSR_READ" -> WrapSome(handle_msr_read(self, v, res))
      [] exit.exit_reason = "MSR_WRITE" -> WrapSome(handle_msr_write(self, v, res))
      [] OTHER -> Effect(None, v, <<>>)

\* X64VmDevices::vmexit_handler
X64VmDevices_vmexit_handler(self, v, exit, arg, res) ==
    CASE exit.exit_reason = "EXTERNAL_INTERRUPT" ->
            WrapSome(handle_external_interrupt(v, arg.int_info, res))
      [] exit.exit_reason = "EPT_VIOLATION" ->
            handle_mmio_instruction(self, v, exit, arg.instr, arg.npf_info)
      [] exit.exit_reason = "IO_INSTRUCTION" -> handle_io_instruction(self, v, exit, res)
      [] exit.exit_reason = "MSR_READ" -> WrapSome(handle_msr_read(self, v, res))
      [] exit.exit_reason = "MSR_WRITE" -> WrapSome(handle_msr_write(self, v, res))
      [] OTHER -> Effect(None, v, <<>>)

\* what the device or the host dispatcher called for the exit may answer
DispatchResponses(self, v, exit) ==
    CASE exit.exit_reason = "IO_INSTRUCTION" -> PioResponses(exit)
      [] exit.exit_reason = "MSR_READ" -> MsrReadResponses(find_msr_device(self, AsU32(v.rcx)))
      [] exit.exit_reason = "MSR_WRITE" -> MsrWriteResponses(find_msr_device(self, AsU32(v.rcx)))
      [] exit.exit_reason = "EXTERNAL_INTERRUPT" -> {Ok, Err("BadState")}
      [] OTHER -> {DevOk}

\* the exit is handed to the per-vCPU device set
call_vcpu_vmexit_handler ==
    /\ phase = "exited"
    /\ \E res \in DispatchResponses(DeviceList, vcpu, exit_info) :
        LET eff == X64VcpuDevices_vmexit_handler(DeviceList, vcpu, exit_info, res)
        IN /\ vcpu' = eff.vcpu
           /\ hist' = Append(hist, Event("X64VcpuDevices::vmexit_handler", eff,
                                         eff.ret = Panicked))
           /\ phase' = IF eff.ret = Panicked THEN "aborted" ELSE "handled"
           /\ msr_value' = msr_device_store(msr_value, eff.calls)
    /\ UNCHANGED <<port_io_devices, memory_io_devices, msr_devices,
                   pci_devices, exit_info, first_reg, OtherVars>>

\* the exit is handed to the per-VM device set
call_vm_vmexit_handler ==
    /\ phase = "exited"
    /\ \E res \in DispatchResponses(DeviceList, vcpu, exit_info) :
        LET eff == X64VmDevices_vmexit_handler(DeviceList, vcpu, exit_info, exit_arg, res)
        IN /\ vcpu' = eff.vcpu
           /\ hist' = Append(hist, Event("X64VmDevices::vmexit_handler", eff,
                                         eff.ret = Panicked))
           /\ phase' = IF eff.ret = Panicked THEN "aborted" ELSE "handled"
           /\ msr_value' = msr_device_store(msr_value, eff.calls)
    /\ UNCHANGED <<port_io_devices, memory_io_devices, msr_devices,
                   pci_devices, exit_info, first_reg, OtherVars>>

NextVcpu ==
    \/ \E ds \in SeqsUpTo(PortDevs, MaxDevs) : add_port_io_devices(ds)
    \/ \E d \in MsrDevs : add_msr_device(d)
    \/ run_vcpu
    \/ vm_exit_dispatch
    \/ call_vcpu_vmexit_handler

\* the per-vCPU device set: its registry as X64VcpuDevices::new builds it,
\* then the exits of its vCPU
SpecVcpu == Init /\ [][NextVcpu]_vars

NextVm ==
    \/ init_pci_host
    \/ \E d \in PortDevs : add_port_io_device(d)
    \/ \E d \in BarDevs : add_virtio_pci_device(d)
    \/ \E d \in MmioDevs : add_memory_io_device(d)
    \/ run_vcpu
    \/ vm_exit_dispatch
    \/ call_vm_vmexit_handler

\* the per-VM device set: its registry as X64VmDevices::new builds it, then
\* the exits its vCPUs hand over
SpecVm == Init /\ [][NextVm]_vars

\* the calls of the last handler that went to the host interrupt dispatcher
HostIrqCalls == {i \in 1..Len(Last.calls) : Last.calls[i].op = "dispatch_host_irq"}
\* the last exit was handled by the per-VM set and had the reason
VmHandled(reason) ==
    HandledBy("X64VmDevices::vmexit_handler") /\ Last.exit.exit_reason = reason

\* C16: on an external-interrupt exit the per-VM set calls the host
\* dispatcher only when the vector is 0xf0 and the info is valid, once, with
\* that vector as the key; with any other vector the dispatcher is not
\* called and the vCPU is in the fatal state instead of the handler returning.
C16_HostIrqOnlyForwardedVector ==
    /\ VmHandled("EXTERNAL_INTERRUPT")
        => LET info == exit_arg.int_info
           IN /\ HostIrqCalls # {}
                    => /\ info.ok /\ info.vector = \hF0 /\ info.valid
                       /\ Len(Last.calls) = 1
                       /\ Last.calls[1].key = info.vector
              /\ (info.ok /\ info.vector = \hF0 /\ info.valid)
                    => /\ HostIrqCalls # {}
                       /\ Last.ret = Some(Last.calls[1].res)
                       /\ phase = "handled"
              /\ (info.ok /\ info.vector # \hF0)
                    => /\ HostIrqCalls = {}
                       /\ Last.ret = Panicked
                       /\ phase = "aborted"
              /\ vcpu = Last.pre
    /\ (HandledBy("X64VmDevices::vmexit_handler")
            /\ Last.exit.exit_reason # "EXTERNAL_INTERRUPT")
        => HostIrqCalls = {}

\* C16 witness: vector 0xf0 with valid info was dispatched to the host, whose
\* result the handler returned
C16_Witness ==
    /\ VmHandled("EXTERNAL_INTERRUPT")
    /\ exit_arg.int_info = IntInfoOk(\hF0, TRUE)
    /\ Len(Last.calls) = 1
    /\ Last.calls[1].op = "dispatch_host_irq"
    /\ Last.calls[1].key = \hF0
    /\ Last.ret = Some(Ok)

\* C17: the per-vCPU set answers exactly the I/O, RDMSR and WRMSR exits from
\* its registry: an I/O exit gets the registry's result (None when no device
\* owns the port, else the result of the earliest owner), an MSR exit that
\* returns gets Some(Ok); every other exit gets None with registers,
\* instruction pointer and devices untouched.
C17_VcpuSetDispatch ==
    HandledBy("X64VcpuDevices::vmexit_handler")
    => LET r == Last.exit.exit_reason
       IN /\ r = "IO_INSTRUCTION"
                => IF PrimaryOwners(Last.exit.port) = {}
                   THEN Last.ret = None /\ Last.calls = <<>> /\ vcpu = Last.pre
                   ELSE /\ Last.ret.is_some
                        /\ \A i \in 1..Len(Last.calls) :
                            Last.calls[i].dev = Earliest(PrimaryOwners(Last.exit.port))
                        /\ IF Last.exit.is_string
                           THEN Last.ret = Some(Err("NotSupported")) /\ Last.calls = <<>>
                           ELSE /\ Len(Last.calls) = 1
                                /\ Last.ret = IF Last.calls[1].res.ok THEN Some(Ok)
                                              ELSE Some(Err(Last.calls[1].res.err))
          /\ r \in {"MSR_READ", "MSR_WRITE"}
                => /\ Last.aborted <=> (MsrOwners(Low32(Last.pre.rcx)) = {} \/ DeviceFailed)
                   /\ ~Last.aborted
                        => /\ Last.ret = Some(Ok)
                           /\ Len(Last.calls) = 1
                           /\ Last.calls[1].dev = Earliest(MsrOwners(Low32(Last.pre.rcx)))
                           /\ Last.calls[1].op = IF r = "MSR_READ" THEN "read" ELSE "write"
          /\ r \notin {"IO_INSTRUCTION", "MSR_READ", "MSR_WRITE"}
                => /\ Last.ret = None
                   /\ phase = "handled"
                   /\ vcpu = Last.pre
                   /\ Last.calls = <<>>
                   /\ ~Last.pci_asked
                   /\ msr_value = Last.msr_before

\* C17 witness: with devices registered, an EPT-violation exit came back from
\* the per-vCPU set as not handled
C17_Witness ==
    /\ HandledBy("X64VcpuDevices::vmexit_handler")
    /\ Last.exit.exit_reason = "EPT_VIOLATION"
    /\ exit_arg.instr.is_some /\ exit_arg.npf_info.ok
    /\ port_io_devices # <<>> /\ msr_devices # <<>>
    /\ Last.ret = None

\* C18: handle_mmio_instruction calls no device, asks the PCI host for no
\* BAR, and leaves the registers and the instruction pointer alone; when it
\* returns it returns None, which it does without a decoded instruction as
\* well as with one and valid nested-page-fault info; so an EPT-violation
\* exit is never reported handled by the per-VM set.
C18_MmioNeverHandled ==
    VmHandled("EPT_VIOLATION")
    => /\ Last.calls = <<>>
       /\ ~Last.pci_asked
       /\ vcpu = Last.pre
       /\ msr_value = Last.msr_before
       /\ ~Last.aborted => Last.ret = None /\ phase = "handled"
       /\ ~exit_arg.instr.is_some => ~Last.aborted
       /\ (exit_arg.instr.is_some /\ exit_arg.npf_info.ok
                /\ exit_arg.instr.code # "INVALID") => ~Last.aborted
       /\ Last.aborted => Last.ret = Panicked

\* C18 witness: a decoded mov and valid fault info for an address that a
\* registered MMIO device owns: the exit was not handled, no device called
C18_Witness ==
    /\ VmHandled("EPT_VIOLATION")
    /\ exit_arg.instr.code = "Mov_r32_rm32"
    /\ exit_arg.npf_info.ok
    /\ find_memory_io_device(DeviceList, exit_arg.npf_info.fault_guest_paddr) # NoDev
    /\ Last.ret = None
    /\ Last.calls = <<>>

(***************************************************************************)
(* Boot of the cores: config_boot_linux.                                   *)
(***************************************************************************)
\* the gate's loop condition gone wrong: no core waits
wait_init_gpm_never(v) == FALSE

\* the condition under which a secondary core keeps spinning at the gate
wait_init_gpm(v) == v < 1

\* the rendezvous' loop condition gone wrong: the last core is not awaited
wait_inited_cpus_but_one(n) == n < SMP - 1

\* the rendezvous' loop condition gone wrong: the full count is awaited too
wait_inited_cpus_inclusive(n) == n <= SMP

\* the condition under which a core keeps spinning at the rendezvous
wait_inited_cpus(n) == n < SMP

\* core c moves from one position of config_boot_linux to the next
Goto(c, from, to) ==
    /\ boot_pc[c] = from
    /\ boot_pc' = [boot_pc EXCEPT ![c] = to]

\* cpu_hv_hardware_enable; then core 0 goes on to initialise the map and the
\* other cores to the gate
cpu_hv_hardware_enable(c) ==
    /\ Goto(c, "start", IF c = 0 THEN "init_root_gpm" ELSE "wait_gpm")
    /\ UNCHANGED <<INIT_GPM_OK, INITED_CPUS, boot_log, BootRest>>

\* core 0: init_root_gpm has completed
init_root_gpm(c) ==
    /\ Goto(c, "init_root_gpm", "store_gpm_ok")
    /\ boot_log' = [boot_log EXCEPT !.gpm_ready = TRUE]
    /\ UNCHANGED <<INIT_GPM_OK, INITED_CPUS, BootRest>>

\* core 0: INIT_GPM_OK.store(1, Release)
store_init_gpm_ok(c) ==
    /\ Goto(c, "store_gpm_ok", "new_vcpu")
    /\ INIT_GPM_OK' = 1
    /\ UNCHANGED <<INITED_CPUS, boot_log, BootRest>>

\* a secondary core: INIT_GPM_OK.load(Acquire) ends the loop
pass_init_gpm(c) ==
    /\ ~wait_init_gpm(INIT_GPM_OK)
    /\ Goto(c, "wait_gpm", "new_vcpu")
    /\ UNCHANGED <<INIT_GPM_OK, INITED_CPUS, boot_log, BootRest>>

\* root_gpm() is read and new_vcpu(..).unwrap() gives the vCPU, or panics
create_vcpu(c, ok) ==
    /\ Goto(c, "new_vcpu", IF ok THEN "bind_vcpu" ELSE "panicked")
    /\ boot_log' = [boot_log EXCEPT
                      !.read_early = IF boot_log.gpm_ready THEN @ ELSE @ \cup {c},
                      !.created = IF ok THEN @ \cup {c} ELSE @]
    /\ UNCHANGED <<INIT_GPM_OK, INITED_CPUS, BootRest>>

\* add_vcpu, VM::new and bind_vcpu(hart_id), each of which may panic
bind_vcpu(c, ok) ==
    /\ Goto(c, "bind_vcpu", IF ok THEN "fetch_add" ELSE "panicked")
    /\ boot_log' = [boot_log EXCEPT !.bound = IF ok THEN @ \cup {c} ELSE @]
    /\ UNCHANGED <<INIT_GPM_OK, INITED_CPUS, BootRest>>

\* INITED_CPUS.fetch_add(1, SeqCst)
fetch_add_inited_cpus(c) ==
    /\ Goto(c, "fetch_add", "wait_cpus")
    /\ INITED_CPUS' = INITED_CPUS + 1
    /\ UNCHANGED <<INIT_GPM_OK, boot_log, BootRest>>

\* INITED_CPUS.load(Acquire) ends the loop
pass_inited_cpus(c) ==
    /\ ~wait_inited_cpus(INITED_CPUS)
    /\ Goto(c, "wait_cpus", "run_type15_vcpu")
    /\ UNCHANGED <<INIT_GPM_OK, INITED_CPUS, boot_log, BootRest>>

\* vm.run_type15_vcpu(hart_id, ..) is entered
run_type15_vcpu(c) ==
    /\ Goto(c, "run_type15_vcpu", "running")
    /\ UNCHANGED <<INIT_GPM_OK, INITED_CPUS, boot_log, BootRest>>

NextBoot ==
    \E c \in Harts :
        \/ cpu_hv_hardware_enable(c)
        \/ init_root_gpm(c)
        \/ store_init_gpm_ok(c)
        \/ pass_init_gpm(c)
        \/ \E ok \in BOOLEAN : create_vcpu(c, ok)
        \/ \E ok \in BOOLEAN : bind_vcpu(c, ok)
        \/ fetch_add_inited_cpus(c)
        \/ pass_inited_cpus(c)
        \/ run_type15_vcpu(c)

\* every core runs config_boot_linux once, interleaved with the others
SpecBoot == Init /\ [][NextBoot]_vars

\* the positions of a secondary core before it has passed the gate
BeforeGate == {"start", "wait_gpm"}
\* the positions of a core that has incremented INITED_CPUS
Counted == {"wait_cpus", "run_type15_vcpu", "running"}

\* C19: no core with hart_id # 0 is past the gate before core 0 has completed
\* init_root_gpm, so no core reads the root map before; INIT_GPM_OK is 0 or
\* 1, is 1 only after init_root_gpm, and once 1 stays 1.
C19_GateAfterInitRootGpm ==
    /\ [](/\ \A c \in Harts \ {0} : boot_pc[c] \notin BeforeGate => boot_log.gpm_ready
          /\ boot_log.read_early = {}
          /\ INIT_GPM_OK \in {0, 1}
          /\ INIT_GPM_OK = 1 => boot_log.gpm_ready)
    /\ [][INIT_GPM_OK' # INIT_GPM_OK => (INIT_GPM_OK = 0 /\ INIT_GPM_OK' = 1)]_vars

\* C19 witness: a secondary core has passed the gate and created its vCPU
\* while core 0, having set the flag, has not created its own yet
C19_Witness ==
    /\ boot_pc[1] = "bind_vcpu"
    /\ boot_pc[0] = "new_vcpu"
    /\ INIT_GPM_OK = 1
    /\ boot_log.gpm_ready

\* C20: no core is past the rendezvous, about to enter or inside
\* run_type15_vcpu, before every one of the SMP cores has created and bound
\* its vCPU and incremented INITED_CPUS; the counter is the number of cores
\* that did so, never decreases and never exceeds SMP.
C20_RunAfterAllCoresInited ==
    /\ [](/\ \A c \in Harts :
                boot_pc[c] \in {"run_type15_vcpu", "running"}
                => /\ INITED_CPUS = SMP
                   /\ \A d \in Harts :
                        /\ boot_pc[d] \in Counted
                        /\ d \in boot_log.created
                        /\ d \in boot_log.bound
          /\ INITED_CPUS = Cardinality({c \in Harts : boot_pc[c] \in Counted})
          /\ INITED_CPUS <= SMP)
    /\ [][INITED_CPUS' >= INITED_CPUS]_vars

\* C20 witness: core 0 is inside run_type15_vcpu while the last core to
\* arrive is still at the rendezvous, the counter being SMP
C20_Witness ==
    /\ boot_pc[0] = "running"
    /\ boot_pc[SMP - 1] = "wait_cpus"
    /\ INITED_CPUS = SMP

(***************************************************************************)
(* The access width of a decoded instruction: get_access_size.             *)
(***************************************************************************)
\* OpKind of an operand
OpKinds == {"Register", "Memory", "Immediate8", "Immediate16", "Immediate32",
            "Immediate64", "NearBranch64"}
\* the instructions handed to get_access_size: the one of a failed decode,
\* and every combination of three operand kinds, a register operand having
\* a register of 1, 4 or 8 bytes and a memory operand a size of 2 or 8 bytes
DecodedInstrs ==
    {Decoded("INVALID", "Register", "Register", "Register", 0, 0, 0, 0)}
        \cup {i \in [is_some : {TRUE}, code : {"Mov"},
                     op0_kind : OpKinds, op1_kind : OpKinds, op2_kind : OpKinds,
                     op0_register_size : {0, 1, 4, 8},
                     op1_register_size : {0, 1, 4, 8},
                     op2_register_size : {0, 1, 4, 8},
                     memory_size : {0, 2, 8}] :
                /\ i.op0_kind = "Register" <=> i.op0_register_size # 0
                /\ i.op1_kind = "Register" <=> i.op1_register_size # 0
                /\ i.op2_kind = "Register" <=> i.op2_register_size # 0
                /\ HasOpKind(i, "Memory") <=> i.memory_size # 0}

\* get_access_size is called on an instruction
call_get_access_size(instruction) ==
    /\ size_call' = [called |-> TRUE, instruction |-> instruction,
                     ret |-> get_access_size(instruction)]
    /\ UNCHANGED <<DispatchVars, TimerVars, NmiVars, exit_arg, BootVars, lock_state,
                   vm_devices>>

NextSize == \E instruction \in DecodedInstrs : call_get_access_size(instruction)

\* get_access_size on any decoded instruction
SpecSize == Init /\ [][NextSize]_vars

\* the size of the first operand that is a register
RegisterOperandSize(i) ==
    IF i.op0_kind = "Register" THEN i.op0_register_size
    ELSE IF i.op1_kind = "Register" THEN i.op1_register_size
    ELSE i.op2_register_size

\* C21: get_access_size returns the decode error for an instruction of
\* invalid code, and otherwise the width of the first rule that matches
\* operands 0 to 2: the size of the register operand if any operand is a
\* register, else the memory size if any is a memory operand, else 1, 2, 4
\* or 8 for an immediate of 8, 16, 32 or 64 bits, else 0.
C21_AccessSizeOfRegisterOperand ==
    size_call.called
    => LET i == size_call.instruction
       IN size_call.ret =
            IF i.code = "INVALID" THEN SizeErr("DecodeError")
            ELSE SizeOk(IF HasOpKind(i, "Register") THEN RegisterOperandSize(i)
                        ELSE IF HasOpKind(i, "Memory") THEN i.memory_size
                        ELSE IF HasOpKind(i, "Immediate8") THEN 1
                        ELSE IF HasOpKind(i, "Immediate16") THEN 2
                        ELSE IF HasOpKind(i, "Immediate32") THEN 4
                        ELSE IF HasOpKind(i, "Immediate64") THEN 8
                        ELSE 0)

(***************************************************************************)
(* The device locks taken by handle_io_instruction.  Every device, the PCI *)
(* host and its root bus are behind a spin::Mutex; a guard is released     *)
(* when the temporary or the binding that holds it goes out of scope.      *)
(***************************************************************************)
\* what the steps of handle_io_instruction leave alone
LockRest == <<DispatchVars, TimerVars, NmiVars, exit_arg, BootVars, size_call,
              vm_devices>>

\* the lock is not held by any task
LockFree(lock) == \A t \in VcpuTasks : lock \notin lock_state[t].held

\* task t moves on
LockStep(t, next) ==
    /\ lock_state' = [lock_state EXCEPT ![t] = next]
    /\ UNCHANGED LockRest

\* handle_io_instruction is entered for an exit on the port
enter_handle_io_instruction(t, port) ==
    /\ phase = "guest"
    /\ lock_state[t].pc = "outside"
    /\ LockStep(t, [Outside EXCEPT !.pc = "find", !.port = port, !.i = 1])

\* find_port_io_device: the closure locks the next device of the list
find_port_io_device_lock(t) ==
    LET s == lock_state[t]
    IN /\ s.pc = "find"
       /\ s.i <= Len(port_io_devices)
       /\ LockFree(port_io_devices[s.i])
       /\ LockStep(t, [s EXCEPT !.pc = "port_range",
                                !.held = s.held \cup {port_io_devices[s.i]}])

\* find_port_io_device: the range is queried and the closure returns, which
\* drops the guard; the search ends at the first device that has the port
find_port_io_device_unlock(t) ==
    LET s == lock_state[t]
        dev == port_io_devices[s.i]
    IN /\ s.pc = "port_range"
       /\ LockStep(t, IF PortRangeContains(port_range(dev), s.port)
                      THEN [s EXCEPT !.pc = "to_device", !.dev = dev,
                                     !.held = s.held \ {dev}]
                      ELSE [s EXCEPT !.pc = "find", !.i = s.i + 1,
                                     !.held = s.held \ {dev}])

\* find_port_io_device found no device: handle_io_instruction returns None
\* without a PCI host, and clones the handle of the host if there is one
find_port_io_device_none(t) ==
    LET s == lock_state[t]
    IN /\ s.pc = "find"
       /\ s.i > Len(port_io_devices)
       /\ LockStep(t, IF pci_devices.is_some
                      THEN [s EXCEPT !.pc = "pci_host"]
                      ELSE Outside)

\* `&pci_host.lock().root_bus`: the guard of the host is a temporary of the
\* initialiser of a `let` that borrows from it, so it lives as long as the
\* binding: to the end of the block
pci_host_lock(t) ==
    LET s == lock_state[t]
    IN /\ s.pc = "pci_host"
       /\ LockFree("pci_host")
       /\ LockStep(t, [s EXCEPT !.pc = "root_bus", !.held = s.held \cup {"pci_host"}])

\* `root_bus.clone().lock().find_pio_bar(port)`: the guard of the root bus is
\* a temporary of the scrutinee of the `if let`, which lives to the end of
\* the `if let`
root_bus_lock(t) ==
    LET s == lock_state[t]
        bar == find_pio_bar(pci_devices.root_bus, s.port)
    IN /\ s.pc = "root_bus"
       /\ LockFree("root_bus")
       /\ LockStep(t, [s EXCEPT !.pc = IF bar # NoDev THEN "to_device" ELSE "return",
                                !.dev = bar,
                                !.held = s.held \cup {"root_bus"}])

\* handle_io_instruction_to_device: INS/OUTS and REP accesses return at once,
\* any other locks the device for its read or write
io_device_lock(t, exit) ==
    LET s == lock_state[t]
    IN /\ s.pc = "to_device"
       /\ exit.port = s.port
       /\ IF exit.is_string \/ exit.is_repeat
          THEN LockStep(t, [s EXCEPT !.pc = "return"])
          ELSE /\ LockFree(s.dev)
               /\ LockStep(t, [s EXCEPT !.pc = "read_write",
                                        !.held = s.held \cup {s.dev}])

\* the read or write is done and its statement ends, which drops the guard
io_device_unlock(t) ==
    LET s == lock_state[t]
    IN /\ s.pc = "read_write"
       /\ LockStep(t, [s EXCEPT !.pc = "return", !.held = s.held \ {s.dev}])

\* handle_io_instruction returns: the guards still alive are dropped
handle_io_instruction_return(t) ==
    /\ lock_state[t].pc = "return"
    /\ LockStep(t, Outside)

NextLock ==
    \/ \E d \in PortDevs : add_port_io_device(d)
    \/ init_pci_host
    \/ \E d \in BarDevs : add_virtio_pci_device(d)
    \/ run_vcpu
    \/ \E t \in VcpuTasks, port \in Ports : enter_handle_io_instruction(t, port)
    \/ \E t \in VcpuTasks : find_port_io_device_lock(t)
    \/ \E t \in VcpuTasks : find_port_io_device_unlock(t)
    \/ \E t \in VcpuTasks : find_port_io_device_none(t)
    \/ \E t \in VcpuTasks : pci_host_lock(t)
    \/ \E t \in VcpuTasks : root_bus_lock(t)
    \/ \E t \in VcpuTasks, exit \in IoExits : io_device_lock(t, exit)
    \/ \E t \in VcpuTasks : io_device_unlock(t)
    \/ \E t \in VcpuTasks : handle_io_instruction_return(t)

\* registry construction followed by the I/O exits of the vCPU tasks of the
\* VM, each step of their handling interleaved
SpecLock == Init /\ [][NextLock]_vars

\* C22: during registry dispatch a task holds a device lock only for one
\* range query, read or write, and holds no lock while it acquires another:
\* on the PCI fallback path the locks of the PCI host and of the root bus
\* are released before the read or write of the BAR device.
C22_OneLockPerOperation ==
    \A t \in VcpuTasks :
        LET s == lock_state[t]
        IN /\ Cardinality(s.held) <= 1
           /\ s.pc = "read_write" => s.held = {s.dev}

(***************************************************************************)
(* The two-stage dispatch of the vCPU run loop: the exit goes to the       *)
(* per-vCPU device set, and to the per-VM device set if that one reports   *)
(* it as not handled.                                                      *)
(***************************************************************************)
\* the registries of the per-VM device set: the one X64VmDevices::new
\* builds, with the PCI host and the virtio device on its root bus, and two
\* with devices that a per-vCPU registry may have as well
VmDeviceLists ==
    {[DeviceList_new EXCEPT !.pci_devices = PciSome(<<"bar">>)],
     [DeviceList_new EXCEPT !.port_io_devices = <<"cmos">>, !.msr_devices = <<"msr_any">>],
     [DeviceList_new EXCEPT !.port_io_devices = <<"dev71", "cmos">>,
                            !.msr_devices = <<"msr_reg">>,
                            !.memory_io_devices = <<"mmio_a">>,
                            !.pci_devices = PciSome(<<>>)]}

\* X64VmDevices::new: the per-VM device set gets its registry
X64VmDevices_new(devices) ==
    /\ phase = "setup"
    /\ vm_devices = DeviceList_new
    /\ vm_devices' = devices
    /\ UNCHANGED <<DispatchVars, TimerVars, NmiVars, exit_arg, BootVars, size_call,
                   lock_state>>

\* the run loop hands the exit to the per-vCPU set and, if that returns
\* None, to the per-VM set
dispatch_vmexit ==
    /\ phase = "exited"
    /\ \E res1 \in DispatchResponses(DeviceList, vcpu, exit_info) :
        LET first == X64VcpuDevices_vmexit_handler(DeviceList, vcpu, exit_info, res1)
            ev1 == Event("X64VcpuDevices::vmexit_handler", first, first.ret = Panicked)
        IN IF first.ret # None
           THEN /\ vcpu' = first.vcpu
                /\ hist' = Append(hist, ev1)
                /\ phase' = IF first.ret = Panicked THEN "aborted" ELSE "handled"
                /\ msr_value' = msr_device_store(msr_value, first.calls)
           ELSE \E res2 \in DispatchResponses(vm_devices, first.vcpu, exit_info) :
                LET second == X64VmDevices_vmexit_handler(vm_devices, first.vcpu,
                                                          exit_info, exit_arg, res2)
                    ev2 == [Event("X64VmDevices::vmexit_handler", second,
                                  second.ret = Panicked)
                                EXCEPT !.pre = first.vcpu]
                IN /\ vcpu' = second.vcpu
                   /\ hist' = Append(Append(hist, ev1), ev2)
                   /\ phase' = IF second.ret = Panicked THEN "aborted" ELSE "handled"
                   /\ msr_value' = msr_device_store(msr_device_store(msr_value, first.calls),
                                                    second.calls)
    /\ UNCHANGED <<port_io_devices, memory_io_devices, msr_devices,
                   pci_devices, exit_info, first_reg, OtherVars>>

NextTwoStage ==
    \/ add_port_io_device("cmos")
    \/ \E d \in MsrDevs : add_msr_device(d)
    \/ \E devices \in VmDeviceLists : X64VmDevices_new(devices)
    \/ run_vcpu
    \/ vm_exit_dispatch
    \/ dispatch_vmexit

\* the registries of a per-vCPU and of a per-VM device set, then the exits
\* of the vCPU, each dispatched in two stages
SpecTwoStage == Init /\ [][NextTwoStage]_vars

\* the device reads and writes of the handlers the exit went to
DeviceCalls ==
    {<<e, i>> \in (1..Len(hist)) \X (1..1) :
        i <= Len(hist[e].calls) /\ hist[e].calls[i].op \in {"read", "write"}}
\* the exit went on to the per-VM device set
ReachedVm == Len(hist) = 2 /\ Last.handler = "X64VmDevices::vmexit_handler"

\* C23: under the two-stage dispatch an exit is serviced by at most one
\* device and the instruction pointer advances at most once; the exit
\* reaches the per-VM set only after the per-vCPU set returned None without
\* a device call or a register change; an I/O exit reaches it only when its
\* port is in the range of no per-vCPU device, and an MSR-read or MSR-write
\* exit never does.
C23_TwoStageServicedOnce ==
    phase \in {"handled", "aborted"}
    => /\ Len(hist) \in {1, 2}
       /\ hist[1].handler = "X64VcpuDevices::vmexit_handler"
       /\ \A e \in 1..Len(hist) : Len(hist[e].calls) <= 1
       /\ Cardinality(DeviceCalls) <= 1
       /\ vcpu.rip \in {hist[1].pre.rip,
                        hist[1].pre.rip + exit_info.exit_instruction_length}
       /\ Len(hist) = 2
            => /\ ReachedVm
               /\ hist[1].ret = None
               /\ hist[1].calls = <<>>
               /\ hist[2].pre = hist[1].pre
               /\ exit_info.exit_reason \notin {"MSR_READ", "MSR_WRITE"}
               /\ exit_info.exit_reason = "IO_INSTRUCTION"
                    => PrimaryOwners(exit_info.port) = {}
       /\ (Len(hist) = 1 /\ exit_info.exit_reason \in {"MSR_READ", "MSR_WRITE"})
            => hist[1].ret # None

\* an I/O exit on a port of none of the per-vCPU devices was serviced by a
\* device of the per-VM set
C23_Witness ==
    /\ phase = "handled"
    /\ ReachedVm
    /\ exit_info.exit_reason = "IO_INSTRUCTION"
    /\ Last.ret = Some(Ok)
    /\ Cardinality(DeviceCalls) = 1
    /\ port_io_devices # <<>>
    /\ vcpu.rip = hist[1].pre.rip + exit_info.exit_instruction_length

(***************************************************************************)
(* Boot of the cores under fair scheduling.  Every core is a physical CPU  *)
(* that keeps executing: a step of a core that stays possible is taken.  A *)
(* core in a spin loop whose condition holds has no step to take.          *)
(***************************************************************************)
\* core 0: init_root_gpm does not return
init_root_gpm_never_returns(c) ==
    /\ Goto(c, "init_root_gpm", "panicked")
    /\ UNCHANGED <<INIT_GPM_OK, INITED_CPUS, boot_log, BootRest>>

\* the steps of core c in config_boot_linux
config_boot_linux(c) ==
    \/ cpu_hv_hardware_enable(c)
    \/ init_root_gpm(c)
    \/ init_root_gpm_never_returns(c)
    \/ store_init_gpm_ok(c)
    \/ pass_init_gpm(c)
    \/ \E ok \in BOOLEAN : create_vcpu(c, ok)
    \/ \E ok \in BOOLEAN : bind_vcpu(c, ok)
    \/ fetch_add_inited_cpus(c)
    \/ pass_inited_cpus(c)
    \/ run_type15_vcpu(c)

NextBootFair == \E c \in Harts : config_boot_linux(c)

\* every core runs config_boot_linux once and none of them stops executing
SpecBootFair ==
    /\ Init
    /\ [][NextBootFair]_vars
    /\ \A c \in Harts : WF_vars(config_boot_linux(c))

\* every core is inside run_type15_vcpu
AllRunning == \A c \in Harts : boot_pc[c] = "running"

\* C24: once core 0 has completed init_root_gpm and every core has created
\* and bound its vCPU, every core eventually leaves both spin loops and
\* enters run_type15_vcpu; as long as core 0 has not completed init_root_gpm
\* no secondary core is past the gate, no core is past the rendezvous and
\* INITED_CPUS is below SMP, and if it never completes then every secondary
\* core ends up spinning at the gate forever.
C24_BootRendezvousLiveness ==
    /\ (boot_log.gpm_ready /\ boot_log.bound = Harts) ~> AllRunning
    /\ [](~boot_log.gpm_ready
            => /\ \A c \in Harts \ {0} : boot_pc[c] \in BeforeGate
               /\ \A c \in Harts : boot_pc[c] \notin {"run_type15_vcpu", "running"}
               /\ INITED_CPUS < SMP)
    /\ [](~boot_log.gpm_ready) => <>[](\A c \in Harts \ {0} : boot_pc[c] = "wait_gpm")

\* C24 witness: every core has left both spin loops and runs its guest
C24_Witness ==
    /\ AllRunning
    /\ boot_log.gpm_ready
    /\ boot_log.bound = Harts
    /\ INITED_CPUS = SMP

====
